---- MODULE Spec2Model ----
(***************************************************************************)
(* Model of the UHF RFID reader protocol engine (protocol/src/interface.rs), *)
(* of the USB HID transport it is driven with (api/src/rfid_device/          *)
(* usb_device.rs), and of the lock and password calls of the high-level API  *)
(* (api/src/api/uhf_rfid_api.rs, lock_pattern_builder.rs).  Bytes are        *)
(* naturals 0..255, byte strings are sequences (1-based here, 0-based in     *)
(* the source).                                                              *)
(***************************************************************************)
EXTENDS Naturals, Integers, Sequences, FiniteSets, TLC

VARIABLES
    pc,             \* position of the running call: "idle", "send", "recv", "done"
    op,             \* Interface operation in progress, by its name in the source, or "none"
    device,         \* the `device: &impl UsbIo` argument: "UsbIo" (any conforming backend) or "UsbDevice"
    memory_bank,    \* argument memory_bank
    address,        \* argument address (u8)
    r_len,          \* argument r_len of read (u8)
    data,           \* argument data of write
    command,        \* the slice handed to send_command
    bytes_written,  \* send_command's local bytes_written
    written,        \* chunks passed to write_bulk so far, in call order
    response,       \* read_response's accumulating buffer
    chunks,         \* the bytes actually read by each successful read_bulk, in call order
    reads,          \* number of read_bulk calls issued by the running call
    elapsed,        \* start_time.elapsed() in seconds at the last check
    io,             \* what the last transport call met on the wire and what it returned
    rr,             \* what read_response returned: "none", "Ok", "Timeout", "Communication", "InvalidResponse"
    result,         \* what the operation returned
    action,         \* argument action of Interface::action (u8)
    time_units,     \* argument time_units of Interface::action (u8)
    debug_mode,     \* field debug_mode of the Interface the operation is called on
    password,       \* argument password of Interface::set_access_password ([u8; 8])
    lock_setting,   \* argument lock_setting of Interface::lock_memory ([u8; 6])
    api,            \* the UhfRfidApi or LockPatternBuilder call in progress and its arguments
    polls,          \* get_epc_list_raw: iterations of the poll loop begun so far
    responses,      \* get_epc_list_raw: the local `responses`
    frames,         \* the command frames handed to send_command by the running call, in order
    returned,       \* what the last read_response of the running call returned
    unread,         \* the last report read announced a continuation that was not read
    quiet,          \* no transport call of the running call has failed, and no poll of it
                    \* has been answered with anything but the all-zero report
    connected,      \* UsbDevice.connected
    tags,           \* UhfRfidApi::inventory: the InventoryResults it returns
    app,            \* the TUI's App: the fields its key dispatch and its write, lock and
                    \* raw handlers read (not the texts shown, the menu selection, the
                    \* read form, the password and the action flags)
    run,            \* where run_app is: before connecting, in its loop, returned, panicked
    risky,          \* the write, lock or raw send the last key event's handler attempted
    warned          \* the lock selection of the last permanence warning, until a write,
                    \* lock or raw attempt has come back

\* the arguments of the operations other than read and write
more_args == <<action, time_units, debug_mode, password, lock_setting, api>>

vars == <<pc, op, device, memory_bank, address, r_len, data, command, bytes_written,
          written, response, chunks, reads, elapsed, io, rr, result, more_args,
          polls, responses, frames, returned, unread, quiet, connected, tags,
          app, run, risky, warned>>

\* the state of the protocol engine and the API
engine_vars == <<pc, op, device, memory_bank, address, r_len, data, command,
                 bytes_written, written, response, chunks, reads, elapsed, io, rr,
                 result, more_args, polls, responses, frames, returned, unread, quiet,
                 connected, tags>>

\* the state of the TUI
tui_vars == <<app, run, risky, warned>>

-----------------------------------------------------------------------------
(* Bounds of the model *)

MaxCount == 16       \* read counts 0..MaxCount are enumerated (plus the u8 extremes)
MaxShortLen == 5     \* write data of every length 0..MaxShortLen is enumerated
MaxWords == 31       \* write data of 4*w bytes for w in 1..MaxWords is enumerated
MaxReads == 2        \* read_bulk calls per read_response
MaxLiveReads == 3    \* read_bulk calls per read_response when every call takes time
MaxReadSecs == 2     \* seconds one read_bulk call may take to come back
MaxAction == 16      \* action bitmasks 0..MaxAction are enumerated (plus the u8 extreme)
MaxShortTags == 1    \* polls of one inventory answered with the short all-zero report
MaxHexLen == 4       \* longest string given to ascii_to_hex
MaxLongPoll == 0     \* last poll of an inventory whose answer may announce a continuation
MaxTyped == 1        \* characters typed into the data field of a form
MaxSeenTags == 2     \* tags an inventory of the TUI finds

(* Program constants *)

ChunkSize == 64          \* chunk size of send_command and read_response
ContinuationMarker == 130 \* 0x82
EndMarker == 2           \* 0x02
Sentinel == 63           \* continuation sentinel of incoming chunks
TimeoutSecs == 2         \* Duration::from_secs(2)
CommandBufLen == 256     \* vec![0u8; 256]
U8Max == 255
WordBits == 16           \* width of the lock pattern, a u16
MaskOffset == 10         \* distance from an action bit to its mask bit
LockSettingLen == 6      \* lock_setting: &[u8; 6]
PollCount == 10          \* for _ in 0..10
ShortHexLen == 47        \* &hex_str[..47]
MinPollResponse == 5     \* resp.len() >= 5

-----------------------------------------------------------------------------
(* Helpers on byte strings *)

Min(a, b) == IF a < b THEN a ELSE b

\* Vec::resize(n, 0) on a vector no longer than n
Resize(s, n) == [i \in 1..n |-> IF i <= Len(s) THEN s[i] ELSE 0]

\* v[0] = b on a non-empty vector
SetFirst(s, b) == [i \in 1..Len(s) |-> IF i = 1 THEN b ELSE s[i]]

\* s[from..] of the source (0-based from)
DropFirst(s, from) == SubSeq(s, from + 1, Len(s))

-----------------------------------------------------------------------------
(* types.rs *)

MemoryBanks == {"Epc", "Tid", "User", "Reserved"}

\* enum discriminants of MemoryBank
MemoryBankCode(b) ==
    CASE b = "Epc" -> 1
      [] b = "Tid" -> 2
      [] b = "User" -> 3
      [] b = "Reserved" -> 4

to_ascii(b) == MemoryBankCode(b) + 48

-----------------------------------------------------------------------------
(* lock_pattern_builder.rs *)

LockableMemoryBanks == {"User", "Tid", "Epc", "AccessPassword", "KillPassword"}

LockActions == {"Writeable", "PermanentlyWriteable", "SecureWriteable", "NotWriteable"}

PasswordLockActions == {"ReadWriteable", "PermanentlyReadWriteable",
                        "SecureReadWriteable", "NotReadWriteable"}

\* (data_bit_pos, perm_bit_pos) of a bank
BitPositions(bank) ==
    CASE bank = "User" -> <<8, 9>>
      [] bank = "Tid" -> <<6, 7>>
      [] bank = "Epc" -> <<4, 5>>
      [] bank = "AccessPassword" -> <<2, 3>>
      [] bank = "KillPassword" -> <<0, 1>>

\* the u16 with exactly the bits of the set `bits`
RECURSIVE Word(_)
Word(bits) ==
    IF bits = {} THEN 0
    ELSE LET b == CHOOSE x \in bits : TRUE IN 2 ^ b + Word(bits \ {b})

\* The bits the shifts `1 << k` of a u16 set, k ranging over `shifts`: a shift by 16 or
\* more panics with overflow checks and takes the amount modulo 16 without them.
ShiftBits(shifts, overflow_checks) ==
    IF overflow_checks /\ \E k \in shifts : k >= WordBits
        THEN [panic |-> TRUE, bits |-> {}]
        ELSE [panic |-> FALSE, bits |-> {k % WordBits : k \in shifts}]

\* the pattern both builders compute from the two bit positions of the bank
BuildPattern(pos, act, apply_mask, overflow_checks) ==
    LET action_bits ==
            CASE act \in {"Writeable", "ReadWriteable"} -> {}
              [] act \in {"PermanentlyWriteable", "PermanentlyReadWriteable"} -> {pos[2]}
              [] act \in {"SecureWriteable", "SecureReadWriteable"} -> {pos[1]}
              [] act \in {"NotWriteable", "NotReadWriteable"} -> {pos[1], pos[2]}
        mask == ShiftBits(IF apply_mask THEN {pos[1] + MaskOffset, pos[2] + MaskOffset} ELSE {},
                          overflow_checks)
    IN [panic |-> mask.panic, pattern |-> Word(action_bits \cup mask.bits)]

\* memory_bank with the mask bits 8 above the action bits
LockPatternBuilder_memory_bank_Mask8(bank, act, apply_mask, overflow_checks) ==
    LET pos == BitPositions(bank)
        mask == ShiftBits(IF apply_mask THEN {pos[1] + 8, pos[2] + 8} ELSE {},
                          overflow_checks)
    IN [panic |-> mask.panic,
        pattern |-> BuildPattern(pos, act, FALSE, overflow_checks).pattern + Word(mask.bits)]

\* LockPatternBuilder::memory_bank
LockPatternBuilder_memory_bank(bank, act, apply_mask, overflow_checks) ==
    BuildPattern(BitPositions(bank), act, apply_mask, overflow_checks)

\* password with the bits of PermanentlyReadWriteable and SecureReadWriteable exchanged
LockPatternBuilder_password_Exchanged(bank, act, apply_mask, overflow_checks) ==
    IF bank \notin {"AccessPassword", "KillPassword"}
        THEN [panic |-> TRUE, pattern |-> 0]
        ELSE LET pos == IF bank = "AccessPassword" THEN <<2, 3>> ELSE <<0, 1>>
                 action_bits ==
                     CASE act = "ReadWriteable" -> {}
                       [] act = "PermanentlyReadWriteable" -> {pos[1]}
                       [] act = "SecureReadWriteable" -> {pos[2]}
                       [] act = "NotReadWriteable" -> {pos[1], pos[2]}
                 mask == ShiftBits(IF apply_mask
                                     THEN {pos[1] + MaskOffset, pos[2] + MaskOffset}
                                     ELSE {},
                                   overflow_checks)
             IN [panic |-> mask.panic, pattern |-> Word(action_bits \cup mask.bits)]

\* LockPatternBuilder::password: (read_bit_pos, write_bit_pos) of the two password
\* banks, its own match on the action, and the mask bits
LockPatternBuilder_password(bank, act, apply_mask, overflow_checks) ==
    IF bank \notin {"AccessPassword", "KillPassword"}
        THEN [panic |-> TRUE, pattern |-> 0]
        ELSE LET pos == IF bank = "AccessPassword" THEN <<2, 3>> ELSE <<0, 1>>
                 action_bits ==
                     CASE act = "ReadWriteable" -> {}
                       [] act = "PermanentlyReadWriteable" -> {pos[2]}
                       [] act = "SecureReadWriteable" -> {pos[1]}
                       [] act = "NotReadWriteable" -> {pos[1], pos[2]}
                 mask == ShiftBits(IF apply_mask
                                     THEN {pos[1] + MaskOffset, pos[2] + MaskOffset}
                                     ELSE {},
                                   overflow_checks)
             IN [panic |-> mask.panic, pattern |-> Word(action_bits \cup mask.bits)]

-----------------------------------------------------------------------------
(* Transport: the HID backend, UsbDevice, and any other UsbIo backend *)

Devices == {"UsbIo", "UsbDevice"}

\* the backends whose calls are followed: once the UsbDevice is disconnected, its own
Backends == IF connected THEN Devices ELSE {"UsbDevice"}

\* UsbError -> UhfError
map_usb_to_uhf(err) ==
    CASE err = "Timeout" -> "Timeout"
      [] err = "DeviceNotFound" -> "DeviceNotFound"
      [] OTHER -> "Communication"

\* UsbDevice::is_connected
is_connected == connected

\* UsbDevice::read_bulk_impl: a disconnected device fails before the HID call;
\* otherwise hid is what HidDevice::read_timeout met: a report ("data"), no report
\* before the timeout ("none", read_timeout gives Ok(0)), or a backend failure
\* ("error").
read_bulk_impl(hid) ==
    IF ~connected
        THEN [ok |-> FALSE, err |-> "Usb", len |-> 0]
    ELSE IF hid.kind = "error"
        THEN [ok |-> FALSE, err |-> "Usb", len |-> 0]
        ELSE [ok |-> TRUE, err |-> "", len |-> Len(hid.bytes)]

\* UsbDevice::write_bulk_impl: a disconnected device fails before the HID call
write_bulk_impl(hidok) ==
    IF ~connected
        THEN [ok |-> FALSE, err |-> "Usb"]
    ELSE IF hidok THEN [ok |-> TRUE, err |-> ""] ELSE [ok |-> FALSE, err |-> "Usb"]

\* whether a transfer asked of dev gets as far as the HID device
Reaches(dev) == dev = "UsbDevice" => connected

\* impl UsbIo for UsbDevice
UsbDevice_read_bulk(hid) ==
    LET r == read_bulk_impl(hid)
    IN IF r.ok THEN [kind |-> "Ok", len |-> r.len]
               ELSE [kind |-> map_usb_to_uhf(r.err), len |-> 0]

UsbDevice_write_bulk(hidok) ==
    LET r == write_bulk_impl(hidok)
    IN IF r.ok THEN "Ok" ELSE map_usb_to_uhf(r.err)

\* Any other backend of the UsbIo trait: a read that gets nothing in time fails with
\* Timeout, a failing transfer with Communication.
UsbIo_read_bulk(hid) ==
    CASE hid.kind = "data" -> [kind |-> "Ok", len |-> Len(hid.bytes)]
      [] hid.kind = "none" -> [kind |-> "Timeout", len |-> 0]
      [] OTHER -> [kind |-> "Communication", len |-> 0]

read_bulk(dev, hid) ==
    IF dev = "UsbDevice" THEN UsbDevice_read_bulk(hid) ELSE UsbIo_read_bulk(hid)

\* What a write_bulk call can return
WriteResults(dev) ==
    IF dev = "UsbDevice"
        THEN {UsbDevice_write_bulk(ok) : ok \in BOOLEAN}
        ELSE {"Ok", "Timeout", "Communication"}

-----------------------------------------------------------------------------
(* What the reader can put on the wire *)

\* A report of n bytes with the given first byte and the given byte at offset 4
DevChunk(first, mark, n) ==
    [i \in 1..n |-> IF i = 1 THEN first ELSE IF i = 5 THEN mark ELSE 100 + i]

\* the reports that differ from report r in exactly one byte
OneOff(r) == {[r EXCEPT ![i] = (r[i] + 1) % 256] : i \in 1..Len(r)}

\* Reports around an acknowledgement: the acknowledgement, alone and followed by one
\* more byte, the acknowledgement cut by a byte, every report one byte away from it,
\* and a full report that announces a continuation
Answers(ack) ==
    {ack, Append(ack, 7), SubSeq(ack, 1, Len(ack) - 1), DevChunk(Sentinel, 0, ChunkSize)}
        \cup OneOff(ack)

\* the report of a poll that found no tag, and of one that found a tag
NoTagReport == [i \in 1..24 |-> IF i <= 4 THEN <<4, 2, 85, 145>>[i] ELSE 0]
TagReport == [i \in 1..24 |-> IF i <= 4 THEN <<4, 2, 85, 145>>[i] ELSE 200 + i]

\* the all-zero report but for the low half of its last byte, and cut to 5 bytes
AlmostNoTagReport == [NoTagReport EXCEPT ![24] = 5]
ShortNoTagReport == SubSeq(NoTagReport, 1, 5)

\* the reports the reader may answer a command of operation o with
DeviceChunks(o) ==
    CASE o = "read" ->
            {DevChunk(Sentinel, 82, ChunkSize), DevChunk(8, 82, ChunkSize),
             DevChunk(8, 82, 6), DevChunk(8, 82, 5), DevChunk(8, 0, 6),
             DevChunk(Sentinel, 82, 6)}
      [] o = "write" ->
            {DevChunk(Sentinel, 0, ChunkSize), DevChunk(8, 0, ChunkSize),
             DevChunk(8, 0, 1), DevChunk(9, 0, 6)}
      [] o = "action" -> Answers(<<3, 2, 145, 0>>)
      [] o = "set_access_password" -> Answers(<<4, 2, 65, 0, 80>>)
      [] o = "lock_memory" -> Answers(<<8, 1, 2, 3, 76, 5, 79, 75>>)
      [] o = "get_epc_list_raw" ->
            {NoTagReport, TagReport, AlmostNoTagReport, ShortNoTagReport,
             SubSeq(NoTagReport, 1, 4), DevChunk(Sentinel, 0, ChunkSize)}
      [] OTHER -> {}

\* what HidDevice::read_timeout can meet: a report, nothing before the timeout, a failure
ReadEvents(o) ==
    {[kind |-> "data", bytes |-> c] : c \in DeviceChunks(o)}
    \cup {[kind |-> "none", bytes |-> <<>>], [kind |-> "error", bytes |-> <<>>]}

-----------------------------------------------------------------------------
(* interface.rs: encoders *)

hex_value(value) == IF value >= 10 THEN value + 55 ELSE value + 48

\* CountSum with the letters starting one count late
CountSum_LettersLate(n) == IF n > 10 THEN n + 55 ELSE n + 48

\* `if n >= 10 { n + 55 } else { n + 48 }` before the u8 range is applied
CountSum(n) == IF n >= 10 THEN n + 55 ELSE n + 48

\* the same expression as the u8 it yields when the addition wraps
CountByte(n) == CountSum(n) % (U8Max + 1)

\* ReadCommand with the low nibble of the address put first
ReadCommand_LowNibbleFirst(bank, addr, n) ==
    IF addr >= 16
        THEN <<9, 2, 65, 82, to_ascii(bank), 44,
               hex_value(addr % 16), hex_value(addr \div 16), 44, CountByte(n)>>
        ELSE <<8, 2, 65, 82, to_ascii(bank), 44, hex_value(addr), 44, CountByte(n)>>

\* the frame read() hands to send_command: &command[..command_length]
ReadCommand(bank, addr, n) ==
    IF addr >= 16
        THEN <<9, 2, 65, 82, to_ascii(bank), 44,
               hex_value(addr \div 16), hex_value(addr % 16), 44, CountByte(n)>>
        ELSE <<8, 2, 65, 82, to_ascii(bank), 44, hex_value(addr), 44, CountByte(n)>>

\* command_length of write()
WriteCommandLength(addr, d) == IF addr >= 16 THEN 11 + Len(d) ELSE 10 + Len(d)

\* WriteCommand declaring the whole frame length
WriteCommand_DeclaresFrameLength(bank, addr, d) ==
    LET w_len == Len(d) \div 4
        head == IF addr >= 16
                    THEN <<0, 2, 65, 87, to_ascii(bank), 44,
                           hex_value(addr \div 16), hex_value(addr % 16), 44,
                           CountByte(w_len), 44>>
                    ELSE <<0, 2, 65, 87, to_ascii(bank), 44, hex_value(addr), 44,
                           CountByte(w_len), 44>>
    IN SetFirst(head \o d, WriteCommandLength(addr, d))

\* the frame write() hands to send_command, when it gets that far
WriteCommand(bank, addr, d) ==
    LET w_len == Len(d) \div 4
        head == IF addr >= 16
                    THEN <<0, 2, 65, 87, to_ascii(bank), 44,
                           hex_value(addr \div 16), hex_value(addr % 16), 44,
                           CountByte(w_len), 44>>
                    ELSE <<0, 2, 65, 87, to_ascii(bank), 44, hex_value(addr), 44,
                           CountByte(w_len), 44>>
    IN SetFirst(head \o d, WriteCommandLength(addr, d) - 1)

\* WriteEarlyExit turning down empty data only
WriteEarlyExit_EmptyOnly(addr, d, overflow_checks) ==
    LET w_len == Len(d) \div 4 IN
    IF Len(d) = 0 THEN "InvalidParameter"
    ELSE IF w_len > U8Max THEN "InvalidParameter"
    ELSE IF CountSum(w_len) > U8Max /\ overflow_checks THEN "Panic"
    ELSE IF WriteCommandLength(addr, d) > CommandBufLen THEN "Panic"
    ELSE IF WriteCommandLength(addr, d) - 1 > U8Max THEN "InvalidParameter"
    ELSE ""

\* how write() ends before send_command, "" when it reaches send_command
WriteEarlyExit(addr, d, overflow_checks) ==
    LET w_len == Len(d) \div 4 IN
    IF Len(d) = 0 \/ Len(d) % 4 # 0 THEN "InvalidParameter"
    ELSE IF w_len > U8Max THEN "InvalidParameter"
    ELSE IF CountSum(w_len) > U8Max /\ overflow_checks THEN "Panic"
    ELSE IF WriteCommandLength(addr, d) > CommandBufLen THEN "Panic"
    ELSE IF WriteCommandLength(addr, d) - 1 > U8Max THEN "InvalidParameter"
    ELSE ""

-----------------------------------------------------------------------------
(* interface.rs: decoders *)

NoResult == [kind |-> "none", data |-> <<>>]

\* Failure with every error reported as a communication error
Failure_Communication(k) == [kind |-> "Communication", data |-> <<>>]

\* an operation returns Err(k)
Failure(k) == [kind |-> k, data |-> <<>>]

\* read(): what is returned for a response read_response returned Ok
ReadDecode(resp) ==
    IF Len(resp) >= 6 /\ resp[5] = 82
        THEN [kind |-> "Ok", data |-> DropFirst(resp, 5)]
        ELSE Failure("InvalidResponse")

\* WriteDecode taking any non-empty response for a success
WriteDecode_AnyResponse(resp) ==
    IF Len(resp) > 0
        THEN [kind |-> "Ok", data |-> <<>>]
        ELSE Failure("InvalidResponse")

\* write(): what is returned for a response read_response returned Ok
WriteDecode(resp) ==
    IF Len(resp) > 0 /\ resp[1] = 8
        THEN [kind |-> "Ok", data |-> <<>>]
        ELSE Failure("InvalidResponse")

\* action(): what is returned for a response read_response returned Ok; the debug
\* print evaluates the u8 product time_units * 10
ActionDecode(resp, dbg, t, overflow_checks) ==
    IF Len(resp) >= 4 /\ resp[1] = 3 /\ resp[2] = 2 /\ resp[3] = 145 /\ resp[4] = 0
        THEN IF dbg /\ t * 10 > U8Max /\ overflow_checks
                 THEN Failure("Panic")
                 ELSE [kind |-> "Ok", data |-> <<>>]
        ELSE Failure("InvalidResponse")

\* PasswordDecode without the check of the fifth byte
PasswordDecode_FourBytes(resp) ==
    IF Len(resp) >= 5 /\ resp[1] = 4 /\ resp[2] = 2 /\ resp[3] = 65 /\ resp[4] = 0
        THEN [kind |-> "Ok", data |-> <<>>]
        ELSE Failure("InvalidResponse")

\* set_access_password(): what is returned for a response read_response returned Ok
PasswordDecode(resp) ==
    IF Len(resp) >= 5 /\ resp[1] = 4 /\ resp[2] = 2 /\ resp[3] = 65 /\ resp[4] = 0
                      /\ resp[5] = 80
        THEN [kind |-> "Ok", data |-> <<>>]
        ELSE Failure("InvalidResponse")

\* LockDecode without the check of the byte at offset 6
LockDecode_NoO(resp) ==
    IF Len(resp) >= 8 /\ resp[1] = 8 /\ resp[5] = 76 /\ resp[8] = 75
        THEN [kind |-> "Ok", data |-> <<>>]
        ELSE Failure("InvalidResponse")

\* lock_memory(): what is returned for a response read_response returned Ok
LockDecode(resp) ==
    IF Len(resp) >= 8 /\ resp[1] = 8 /\ resp[5] = 76 /\ resp[7] = 79 /\ resp[8] = 75
        THEN [kind |-> "Ok", data |-> <<>>]
        ELSE Failure("InvalidResponse")

\* ASCII of a lowercase hexadecimal digit
LowerHexDigit(v) == IF v < 10 THEN 48 + v ELSE 87 + v

\* hex::encode
RECURSIVE hex_encode(_)
hex_encode(bytes) ==
    IF bytes = <<>> THEN <<>>
    ELSE <<LowerHexDigit(Head(bytes) \div 16), LowerHexDigit(Head(bytes) % 16)>>
            \o hex_encode(Tail(bytes))

\* short_hex without the cut to 47 characters
short_hex_Whole(resp) == hex_encode(resp)

\* the first 47 characters of the encoded response, or all of them
short_hex(resp) ==
    LET hex_str == hex_encode(resp) IN
    IF Len(hex_str) >= ShortHexLen THEN SubSeq(hex_str, 1, ShortHexLen) ELSE hex_str

\* "04025591000000000000000000000000000000000000000"
SentinelString == [i \in 1..ShortHexLen |-> IF i <= 8 THEN <<48, 52, 48, 50, 53, 53, 57, 49>>[i] ELSE 48]

\* InventoryStep with the poll loop left at the first all-zero report
InventoryStep_SentinelStops(n, list, rrv, resp) ==
    IF n = 0
      THEN [continue |-> rrv = "Ok", responses |-> list,
            result |-> IF rrv = "Ok" THEN NoResult ELSE Failure(rrv)]
    ELSE IF rrv = "Ok" /\ Len(resp) >= MinPollResponse
      THEN [continue |-> n < PollCount /\ short_hex(resp) # SentinelString,
            responses |-> IF short_hex(resp) # SentinelString
                            THEN Append(list, short_hex(resp))
                            ELSE list,
            result |-> [kind |-> "Ok", data |-> <<>>]]
    ELSE [continue |-> FALSE, responses |-> list, result |-> [kind |-> "Ok", data |-> <<>>]]

\* InventoryStep with a read error of a poll returned to the caller
InventoryStep_PollErrors(n, list, rrv, resp) ==
    IF rrv # "Ok"
      THEN [continue |-> FALSE, responses |-> list, result |-> Failure(rrv)]
    ELSE IF n = 0
      THEN [continue |-> TRUE, responses |-> list, result |-> NoResult]
    ELSE IF Len(resp) >= MinPollResponse
      THEN [continue |-> n < PollCount,
            responses |-> IF short_hex(resp) # SentinelString
                            THEN Append(list, short_hex(resp))
                            ELSE list,
            result |-> [kind |-> "Ok", data |-> <<>>]]
    ELSE [continue |-> FALSE, responses |-> list, result |-> [kind |-> "Ok", data |-> <<>>]]

\* InventoryStep with an identifier that is already listed left out
InventoryStep_Distinct(n, list, rrv, resp) ==
    IF n = 0
      THEN [continue |-> rrv = "Ok", responses |-> list,
            result |-> IF rrv = "Ok" THEN NoResult ELSE Failure(rrv)]
    ELSE IF rrv = "Ok" /\ Len(resp) >= MinPollResponse
      THEN [continue |-> n < PollCount,
            responses |-> IF /\ short_hex(resp) # SentinelString
                             /\ \A i \in DOMAIN list : list[i] # short_hex(resp)
                            THEN Append(list, short_hex(resp))
                            ELSE list,
            result |-> [kind |-> "Ok", data |-> <<>>]]
    ELSE [continue |-> FALSE, responses |-> list, result |-> [kind |-> "Ok", data |-> <<>>]]

\* InventoryStep with a failed read of the start response taken for the end of the scan
InventoryStep_StartSwallowed(n, list, rrv, resp) ==
    IF n = 0
      THEN [continue |-> rrv = "Ok", responses |-> list,
            result |-> IF rrv = "Ok" THEN NoResult ELSE [kind |-> "Ok", data |-> <<>>]]
    ELSE IF rrv = "Ok" /\ Len(resp) >= MinPollResponse
      THEN [continue |-> n < PollCount,
            responses |-> IF short_hex(resp) # SentinelString
                            THEN Append(list, short_hex(resp))
                            ELSE list,
            result |-> [kind |-> "Ok", data |-> <<>>]]
    ELSE [continue |-> FALSE, responses |-> list, result |-> [kind |-> "Ok", data |-> <<>>]]

\* get_epc_list_raw after read_response has returned rrv (with resp when Ok): whether
\* another poll follows, the list of identifiers, and the result if none follows
InventoryStep(n, list, rrv, resp) ==
    IF n = 0
      THEN [continue |-> rrv = "Ok", responses |-> list,
            result |-> IF rrv = "Ok" THEN NoResult ELSE Failure(rrv)]
    ELSE IF rrv = "Ok" /\ Len(resp) >= MinPollResponse
      THEN [continue |-> n < PollCount,
            responses |-> IF short_hex(resp) # SentinelString
                            THEN Append(list, short_hex(resp))
                            ELSE list,
            result |-> [kind |-> "Ok", data |-> <<>>]]
    ELSE [continue |-> FALSE, responses |-> list, result |-> [kind |-> "Ok", data |-> <<>>]]

Decode(o, resp, overflow_checks) ==
    CASE o = "read" -> ReadDecode(resp)
      [] o = "write" -> WriteDecode(resp)
      [] o = "action" -> ActionDecode(resp, debug_mode, time_units, overflow_checks)
      [] o = "set_access_password" -> PasswordDecode(resp)
      [] o = "lock_memory" -> LockDecode(resp)

-----------------------------------------------------------------------------
(* Inputs *)

Addresses == {0, 9, 10, 15, 16, 154, 255}

Counts == (0..MaxCount) \cup {200, 201, U8Max}

\* data lengths around the limits of write(): the largest that fits the 256-byte
\* command buffer, the first that does not, the largest whose word count is a u8,
\* the first whose word count is not
LimitDataLens == {244, 248, 1020, 1024}

DataLens == (0..MaxShortLen) \cup {4 * w : w \in 1..MaxWords} \cup LimitDataLens

\* the data block of n bytes offered to write()
DataOf(n) == [i \in 1..n |-> (37 * i + 5) % 256]

NoIo == [call |-> "none", hid |-> "none", ret |-> "none"]

NoReturn == [rr |-> "none", response |-> <<>>]

\* action bitmasks: every value up to the first rejected one, and the largest u8
Actions == (0..MaxAction) \cup {U8Max}

\* durations on both sides of the largest one whose tenfold is a u8
TimeUnits == {0, 25, 26, U8Max}

\* A u32 is held as its two 16-bit halves, high half first
U32(hi, lo) == <<hi, lo>>

\* passwords given to UhfRfidApi::set_access_password
Passwords32 == {U32(0, 0), U32(0, 1), U32(4660, 22136), U32(32768, 255), U32(65535, 65535)}

\* passwords given to Interface::set_access_password by other callers
Passwords8 == {<<1, 2, 3, 4, 5, 6, 7, 8>>, <<255, 254, 253, 252, 251, 250, 249, 248>>}

\* lock settings given to Interface::lock_memory: the ASCII of "00C030" and of "000000"
LockSettings == {<<48, 48, 67, 48, 51, 48>>, <<48, 48, 48, 48, 48, 48>>}

\* lock patterns given to UhfRfidApi::lock_memory_raw
Patterns == {0, 10, 49200, 65535}

NoApi == [call |-> "none", bank |-> "none", action |-> "none", apply_mask |-> FALSE,
          password |-> U32(0, 0), pattern |-> 0, actions |-> {}, address |-> U32(0, 0),
          word_count |-> U32(0, 0), length |-> 0, hex_string |-> <<>>]

\* the indicators given to UhfRfidApi::device_action
DeviceActions == {"Beep", "RedLed", "GreenLed", "YellowLed"}

ActionLists == {{}, {"Beep"}, {"RedLed", "YellowLed"}, DeviceActions}

\* addresses and word counts given to UhfRfidApi::read and write, on both sides of
\* the largest u8
ApiAddresses == {U32(0, 16), U32(0, 256), U32(1, 0)}

ApiCounts == {U32(0, 1), U32(0, 256)}

\* lengths of the data given to UhfRfidApi::write
ApiDataLens == {3, 4}

\* the characters of the strings given to UhfRfidApi::ascii_to_hex:
\* '+', '-', '0', 'F', 'a', 'g'
HexStringChars == {43, 45, 48, 70, 97, 103}

\* the strings given to UhfRfidApi::ascii_to_hex
HexStrings == UNION {[1..n -> HexStringChars] : n \in 0..MaxHexLen}

-----------------------------------------------------------------------------
(* The TUI's data *)

\* App::new()
App_new ==
    [state |-> "Main",
     device |-> "None",
     active_input_field |-> 0,
     write_data |-> <<>>,
     raw_input |-> <<>>,
     lock_bank |-> "Epc",
     lock_action |-> "SecureWriteable",
     pending_confirm |-> "None"]

\* the last key event attempted no write, lock or raw send
NoRisk == [handler |-> "none", op |-> "none", entry |-> "None", inventory |-> "none",
           bank |-> "none", action |-> "none", warned |-> FALSE, as_warned |-> FALSE,
           outcome |-> "none"]

\* no permanence warning stands
NoWarning == [bank |-> "none", action |-> "none"]

-----------------------------------------------------------------------------
(* State machine *)

Init ==
    /\ pc = "idle"
    /\ op = "none"
    /\ device = "UsbIo"
    /\ memory_bank = "Epc"
    /\ address = 0
    /\ r_len = 0
    /\ data = <<>>
    /\ command = <<>>
    /\ bytes_written = 0
    /\ written = <<>>
    /\ response = <<>>
    /\ chunks = <<>>
    /\ reads = 0
    /\ elapsed = 0
    /\ io = NoIo
    /\ rr = "none"
    /\ result = NoResult
    /\ action = 0
    /\ time_units = 0
    /\ debug_mode = FALSE
    /\ password = <<>>
    /\ lock_setting = <<>>
    /\ api = NoApi
    /\ polls = 0
    /\ responses = <<>>
    /\ frames = <<>>
    /\ returned = NoReturn
    /\ unread = FALSE
    /\ quiet = TRUE
    /\ connected = TRUE
    /\ tags = <<>>
    /\ app = App_new
    /\ run = "connect"
    /\ risky = NoRisk
    /\ warned = NoWarning

\* the locals of a fresh call
FreshCall ==
    /\ bytes_written' = 0
    /\ written' = <<>>
    /\ response' = <<>>
    /\ chunks' = <<>>
    /\ reads' = 0
    /\ elapsed' = 0
    /\ io' = NoIo
    /\ rr' = "none"
    /\ polls' = 0
    /\ responses' = <<>>
    /\ returned' = NoReturn
    /\ unread' = FALSE
    /\ quiet' = TRUE
    /\ tags' = <<>>
    /\ UNCHANGED tui_vars

\* the operation takes no memory bank, address, count or data
NoTagArgs ==
    /\ memory_bank' = "Epc"
    /\ address' = 0
    /\ r_len' = 0
    /\ data' = <<>>

\* the operation takes none of the other arguments of the engine
NoOtherArgs ==
    /\ action' = 0
    /\ time_units' = 0
    /\ debug_mode' = FALSE
    /\ password' = <<>>
    /\ lock_setting' = <<>>

\* nor is it called through UhfRfidApi
NoMoreArgs ==
    /\ NoOtherArgs
    /\ api' = NoApi

\* the operation ends before send_command with `exit`, or reaches it with cmd
Start(exit, cmd) ==
    IF exit # ""
      THEN /\ pc' = "done"
           /\ command' = <<>>
           /\ frames' = <<>>
           /\ result' = Failure(exit)
      ELSE /\ pc' = "send"
           /\ command' = cmd
           /\ frames' = <<cmd>>
           /\ result' = NoResult

\* a call that returns res, or aborts, before it reaches the protocol engine
Completed(res) ==
    /\ pc = "idle"
    /\ op' = "none"
    /\ device' = "UsbDevice"
    /\ NoTagArgs
    /\ action' = 0
    /\ time_units' = 0
    /\ debug_mode' = FALSE
    /\ password' = <<>>
    /\ lock_setting' = <<>>
    /\ FreshCall
    /\ UNCHANGED connected
    /\ pc' = "done"
    /\ command' = <<>>
    /\ frames' = <<>>
    /\ result' = res

\* a call that returns Ok(()) or ends with `exit` before it reaches the protocol engine
NoOperation(exit) ==
    Completed(IF exit = "" THEN [kind |-> "Ok", data |-> <<>>] ELSE Failure(exit))

\* Interface::read up to its call of send_command
read(dev, bank, addr, n, overflow_checks) ==
    /\ pc = "idle"
    /\ op' = "read"
    /\ device' = dev
    /\ memory_bank' = bank
    /\ address' = addr
    /\ r_len' = n
    /\ data' = <<>>
    /\ NoOtherArgs
    /\ FreshCall
    /\ UNCHANGED connected
    /\ IF CountSum(n) > U8Max /\ overflow_checks
         THEN /\ pc' = "done"
              /\ command' = <<>>
              /\ frames' = <<>>
              /\ result' = Failure("Panic")
         ELSE /\ pc' = "send"
              /\ command' = ReadCommand(bank, addr, n)
              /\ frames' = <<ReadCommand(bank, addr, n)>>
              /\ result' = NoResult

\* Interface::write up to its call of send_command
write(dev, bank, addr, d, overflow_checks) ==
    /\ pc = "idle"
    /\ op' = "write"
    /\ device' = dev
    /\ memory_bank' = bank
    /\ address' = addr
    /\ r_len' = 0
    /\ data' = d
    /\ NoOtherArgs
    /\ FreshCall
    /\ UNCHANGED connected
    /\ LET exit == WriteEarlyExit(addr, d, overflow_checks) IN
       IF exit # ""
         THEN /\ pc' = "done"
              /\ command' = <<>>
              /\ frames' = <<>>
              /\ result' = Failure(exit)
         ELSE /\ pc' = "send"
              /\ command' = WriteCommand(bank, addr, d)
              /\ frames' = <<WriteCommand(bank, addr, d)>>
              /\ result' = NoResult

\* how action() ends before send_command, "" when it reaches send_command
ActionEarlyExit(a) == IF a = 0 \/ a > 15 THEN "InvalidParameter" ELSE ""

\* the frame of action()
ActionCommand(a, t) == <<4, 2, 145, a, t>>

\* Interface::action up to its call of send_command
Interface_action(dev, a, t, dbg) ==
    /\ pc = "idle"
    /\ op' = "action"
    /\ device' = dev
    /\ NoTagArgs
    /\ action' = a
    /\ time_units' = t
    /\ debug_mode' = dbg
    /\ password' = <<>>
    /\ lock_setting' = <<>>
    /\ FreshCall
    /\ UNCHANGED connected
    /\ Start(ActionEarlyExit(a), ActionCommand(a, t))

\* the frame of set_access_password()
PasswordCommand(pw) == <<11, 2, 65, 80>> \o SubSeq(pw, 1, 4) \o SubSeq(pw, 5, 8)

\* Interface::set_access_password up to its call of send_command
set_access_password(dev, pw, dbg) ==
    /\ pc = "idle"
    /\ op' = "set_access_password"
    /\ device' = dev
    /\ NoTagArgs
    /\ action' = 0
    /\ time_units' = 0
    /\ debug_mode' = dbg
    /\ password' = pw
    /\ lock_setting' = <<>>
    /\ FreshCall
    /\ UNCHANGED connected
    /\ Start("", PasswordCommand(pw))

\* to_be_bytes with the least significant byte first
to_be_bytes_LowFirst(p) == <<p[2] % 256, p[2] \div 256, p[1] % 256, p[1] \div 256>>

\* u32::to_be_bytes
to_be_bytes(p) == <<p[1] \div 256, p[1] % 256, p[2] \div 256, p[2] % 256>>

\* UhfRfidApi::get_interface: Ok(Interface { debug_mode: false }) on a connected
\* device, Err(NotConnected) otherwise
get_interface == [ok |-> is_connected, debug_mode |-> FALSE]

\* UhfRfidApi::set_access_password up to send_command
UhfRfidApi_set_access_password(p) ==
    LET interface == get_interface
        password_bytes == to_be_bytes(p)
        full_password == password_bytes \o <<0, 0, 0, 0>>
    IN /\ api' = [NoApi EXCEPT !.call = "set_access_password", !.password = p]
       /\ IF ~interface.ok \/ ~is_connected
            THEN NoOperation("NotConnected")
            ELSE set_access_password("UsbDevice", full_password, interface.debug_mode)

\* LockCommand without the byte left zero at the end
LockCommand_TenBytes(ls) == <<10, 2, 65, 76>> \o ls

\* the frame of lock_memory(): the last of its 11 bytes is left zero
LockCommand(ls) == <<10, 2, 65, 76>> \o ls \o <<0>>

\* Interface::lock_memory up to its call of send_command
lock_memory(dev, ls, dbg) ==
    /\ pc = "idle"
    /\ op' = "lock_memory"
    /\ device' = dev
    /\ NoTagArgs
    /\ action' = 0
    /\ time_units' = 0
    /\ debug_mode' = dbg
    /\ password' = <<>>
    /\ lock_setting' = ls
    /\ FreshCall
    /\ UNCHANGED connected
    /\ Start("", LockCommand(ls))

\* ASCII of an uppercase hexadecimal digit
UpperHexDigit(v) == IF v < 10 THEN 48 + v ELSE 55 + v

\* the uppercase hexadecimal digits of n, without leading zeros
RECURSIVE UpperHex(_)
UpperHex(n) ==
    IF n < 16 THEN <<UpperHexDigit(n)>>
    ELSE Append(UpperHex(n \div 16), UpperHexDigit(n % 16))

\* format!("{n:04X}"): the digits, with zeros in front up to a width of 4
FormatX04(n) ==
    LET digits == UpperHex(n)
        pad == IF Len(digits) < 4 THEN 4 - Len(digits) ELSE 0
    IN [i \in 1..pad |-> 48] \o digits

\* <[u8; 6]>::try_from(&[u8]): only a slice of exactly 6 bytes converts
TryIntoArray6(bytes) == Len(bytes) = LockSettingLen

\* UhfRfidApi::lock_memory_raw up to send_command
UhfRfidApi_lock_memory_raw(pattern) ==
    LET interface == get_interface
        pattern_str == FormatX04(pattern)
    IN IF ~interface.ok THEN NoOperation("NotConnected")
       ELSE IF ~TryIntoArray6(pattern_str) THEN NoOperation("Protocol")
       ELSE IF ~is_connected THEN NoOperation("NotConnected")
       ELSE lock_memory("UsbDevice", pattern_str, interface.debug_mode)

\* UhfRfidApi::lock_memory_bank up to send_command: the pattern is built before
\* lock_memory_raw is entered
UhfRfidApi_lock_memory_bank(bank, act, overflow_checks) ==
    LET built == LockPatternBuilder_memory_bank(bank, act, TRUE, overflow_checks) IN
    /\ api' = [NoApi EXCEPT !.call = "lock_memory_bank", !.bank = bank, !.action = act,
                            !.apply_mask = TRUE, !.pattern = built.pattern]
    /\ IF built.panic
         THEN NoOperation("Panic")
         ELSE UhfRfidApi_lock_memory_raw(built.pattern)

\* lock_password handing every bank to the builder
UhfRfidApi_lock_password_AnyBank(bank, act, overflow_checks) ==
    LET built == LockPatternBuilder_password(bank, act, TRUE, overflow_checks) IN
    /\ api' = [NoApi EXCEPT !.call = "lock_password", !.bank = bank, !.action = act,
                            !.apply_mask = TRUE, !.pattern = built.pattern]
    /\ IF built.panic
         THEN NoOperation("Panic")
         ELSE UhfRfidApi_lock_memory_raw(built.pattern)

\* UhfRfidApi::lock_password up to send_command
UhfRfidApi_lock_password(bank, act, overflow_checks) ==
    LET built == LockPatternBuilder_password(bank, act, TRUE, overflow_checks) IN
    IF bank # "AccessPassword" /\ bank # "KillPassword"
      THEN /\ api' = [NoApi EXCEPT !.call = "lock_password", !.bank = bank, !.action = act]
           /\ NoOperation("Protocol")
      ELSE /\ api' = [NoApi EXCEPT !.call = "lock_password", !.bank = bank, !.action = act,
                                   !.apply_mask = TRUE, !.pattern = built.pattern]
           /\ IF built.panic
                THEN NoOperation("Panic")
                ELSE UhfRfidApi_lock_memory_raw(built.pattern)

\* the wire bit of a DeviceAction
DeviceActionCode(a) ==
    CASE a = "Beep" -> 1
      [] a = "RedLed" -> 2
      [] a = "GreenLed" -> 4
      [] a = "YellowLed" -> 8

\* DeviceAction::combine: the bits of the actions, or-ed
combine(actions) ==
    LET bit(a) == IF a \in actions THEN DeviceActionCode(a) ELSE 0
    IN bit("Beep") + bit("RedLed") + bit("GreenLed") + bit("YellowLed")

\* u8::try_from of a u32
TryFromU32(x) == [ok |-> x[1] = 0 /\ x[2] <= U8Max, value |-> x[2] % (U8Max + 1)]

\* UhfRfidApi::device_action up to send_command
UhfRfidApi_device_action(actions, time) ==
    LET interface == get_interface
        action_byte == combine(actions)
    IN /\ api' = [NoApi EXCEPT !.call = "device_action", !.actions = actions]
       /\ IF ~interface.ok \/ ~is_connected
            THEN NoOperation("NotConnected")
            ELSE Interface_action("UsbDevice", action_byte, time, interface.debug_mode)

\* UhfRfidApi::read up to send_command
UhfRfidApi_read(bank, addr, word_count, overflow_checks) ==
    LET interface == get_interface
        a == TryFromU32(addr)
        n == TryFromU32(word_count)
    IN /\ api' = [NoApi EXCEPT !.call = "read", !.address = addr, !.word_count = word_count]
       /\ IF ~interface.ok THEN NoOperation("NotConnected")
          ELSE IF ~a.ok \/ ~n.ok THEN NoOperation("Protocol")
          ELSE IF ~is_connected THEN NoOperation("NotConnected")
          ELSE read("UsbDevice", bank, a.value, n.value, overflow_checks)

\* UhfRfidApi::write up to send_command
UhfRfidApi_write(bank, addr, d, overflow_checks) ==
    LET interface == get_interface
        a == TryFromU32(addr)
    IN /\ api' = [NoApi EXCEPT !.call = "write", !.address = addr, !.length = Len(d)]
       /\ IF Len(d) % 4 # 0 THEN NoOperation("Protocol")
          ELSE IF ~interface.ok \/ ~is_connected THEN NoOperation("NotConnected")
          ELSE IF ~a.ok THEN NoOperation("Protocol")
          ELSE write("UsbDevice", bank, a.value, d, overflow_checks)

\* char::to_digit(16): the value of a hexadecimal digit, -1 for any other character
to_digit(c) ==
    IF c \in 48..57 THEN c - 48
    ELSE IF c \in 65..70 THEN c - 55
    ELSE IF c \in 97..102 THEN c - 87
    ELSE -1

\* u8::from_str_radix(&format!("{a}{b}"), 16): a '+' in front of at least one more
\* character is taken for a sign, every other character has to be a digit
from_str_radix(a, b) ==
    IF a = 43
      THEN [ok |-> to_digit(b) >= 0, value |-> to_digit(b)]
      ELSE [ok |-> to_digit(a) >= 0 /\ to_digit(b) >= 0,
            value |-> 16 * to_digit(a) + to_digit(b)]

\* UhfRfidApi::ascii_to_hex
ascii_to_hex(hex_string) ==
    LET pairs == 1..(Len(hex_string) \div 2)
        byte(k) == from_str_radix(hex_string[2 * k - 1], hex_string[2 * k])
    IN IF Len(hex_string) % 2 # 0 THEN Failure("Protocol")
       ELSE IF \E k \in pairs : ~byte(k).ok THEN Failure("Protocol")
       ELSE [kind |-> "Ok", data |-> [k \in pairs |-> byte(k).value]]

\* the frames of get_epc_list_raw()
StartCommand == <<3, 2, 85, 128>>
PollCommand == <<3, 2, 85, 145>>

\* Interface::get_epc_list_raw up to its first call of send_command
get_epc_list_raw(dev, dbg) ==
    /\ pc = "idle"
    /\ op' = "get_epc_list_raw"
    /\ device' = dev
    /\ NoTagArgs
    /\ action' = 0
    /\ time_units' = 0
    /\ debug_mode' = dbg
    /\ password' = <<>>
    /\ lock_setting' = <<>>
    /\ FreshCall
    /\ UNCHANGED connected
    /\ Start("", StartCommand)

\* What the caller of get_epc_list_raw gets once it has returned Ok(epc_list):
\* Interface callers that list; UhfRfidApi::inventory one InventoryResult per entry,
\* each with the length of the list for its read_count
InventoryResults(call, epc_list) ==
    IF call # "inventory"
      THEN [result |-> [kind |-> "Ok", data |-> <<>>], tags |-> <<>>]
    ELSE IF Len(epc_list) > U8Max
      THEN [result |-> Failure("Protocol"), tags |-> <<>>]
    ELSE [result |-> [kind |-> "Ok", data |-> <<>>],
          tags |-> [i \in DOMAIN epc_list |->
                      [epc |-> epc_list[i], read_count |-> Len(epc_list)]]]

\* UhfRfidApi::inventory up to send_command
UhfRfidApi_inventory ==
    LET interface == get_interface
    IN /\ api' = [NoApi EXCEPT !.call = "inventory"]
       /\ IF ~interface.ok \/ ~is_connected
            THEN NoOperation("NotConnected")
            ELSE get_epc_list_raw("UsbDevice", interface.debug_mode)

\* UsbDevice::disconnect
disconnect ==
    /\ pc = "idle"
    /\ connected' = FALSE
    /\ UNCHANGED <<pc, op, device, memory_bank, address, r_len, data, command,
                   bytes_written, written, response, chunks, reads, elapsed, io, rr,
                   result, more_args, polls, responses, frames, returned, unread,
                   quiet, tags, tui_vars>>

\* SendChunk with the end marker written into every chunk of a long command
SendChunk_EndMarkerOnly(cmd, bw) ==
    LET end == Min(bw + ChunkSize, Len(cmd))
        chunk == Resize(SubSeq(cmd, bw + 1, end), ChunkSize)
    IN IF Len(cmd) > ChunkSize THEN SetFirst(chunk, EndMarker) ELSE chunk

\* the chunk send_command builds at offset bw of cmd
SendChunk(cmd, bw) ==
    LET end == Min(bw + ChunkSize, Len(cmd))
        chunk == Resize(SubSeq(cmd, bw + 1, end), ChunkSize)
    IN IF Len(cmd) > ChunkSize /\ bw + ChunkSize < Len(cmd)
           THEN SetFirst(chunk, ContinuationMarker)
       ELSE IF Len(cmd) > ChunkSize
           THEN SetFirst(chunk, EndMarker)
       ELSE chunk

\* whether send_command's loop runs once more
SendMore(cmd, bw) == bw < Len(cmd)

\* one iteration of send_command's loop, with the write_bulk call it makes
send_command(res) ==
    /\ pc = "send"
    /\ SendMore(command, bytes_written)
    /\ res \in WriteResults(device)
    /\ written' = Append(written, SendChunk(command, bytes_written))
    /\ io' = [call |-> "write",
              hid |-> IF ~Reaches(device) THEN "unreached"
                      ELSE IF res = "Ok" THEN "data" ELSE "error",
              ret |-> res]
    /\ IF res = "Ok"
         THEN /\ bytes_written' = bytes_written + ChunkSize
              /\ pc' = IF SendMore(command, bytes_written + ChunkSize) THEN "send" ELSE "recv"
              /\ result' = result
         ELSE /\ bytes_written' = bytes_written
              /\ pc' = "done"
              /\ result' = IF op = "get_epc_list_raw" /\ polls > 0
                             THEN InventoryResults(api.call, responses).result
                             ELSE Failure(res)
    /\ tags' = IF res # "Ok" /\ op = "get_epc_list_raw" /\ polls > 0
                 THEN InventoryResults(api.call, responses).tags
                 ELSE tags
    /\ quiet' = IF op = "get_epc_list_raw" THEN quiet /\ res = "Ok" ELSE quiet
    /\ UNCHANGED <<op, device, memory_bank, address, r_len, data, command, response,
                   chunks, reads, elapsed, rr, more_args, polls, responses, frames,
                   returned, unread, connected, tui_vars>>

\* Accumulate with the whole 64-byte buffer appended
Accumulate_WholeBuffer(resp, chunk, len) == resp \o chunk

\* response.extend_from_slice(&chunk[..len])
Accumulate(resp, chunk, len) == resp \o SubSeq(chunk, 1, len)

\* ReadMore without the short-read exit
ReadMore_NoShortExit(chunk, len, secs) ==
    ~(chunk[1] # Sentinel \/ secs > TimeoutSecs)

\* ReadMore without the check of the elapsed time
ReadMore_NoDeadline(chunk, len, secs) ==
    ~(chunk[1] # Sentinel) /\ ~(len < ChunkSize)

\* whether read_response's loop goes round again after Ok(len) into chunk
ReadMore(chunk, len, secs) ==
    ~(chunk[1] # Sentinel \/ secs > TimeoutSecs) /\ ~(len < ChunkSize)

\* what read_response returns once its loop has been left
ReadResponseResult(resp) == IF resp = <<>> THEN "InvalidResponse" ELSE "Ok"

\* one iteration of read_response's loop, with the read_bulk call it makes; when the
\* loop is left, the rest of read_response and of the calling operation
read_response(hid, secs) ==
    /\ pc = "recv"
    /\ LET ret == read_bulk(device, hid)
           chunk == Resize(SubSeq(hid.bytes, 1, ret.len), ChunkSize)
           resp == Accumulate(response, chunk, ret.len)
           rrv == IF ret.kind = "Ok" THEN ReadResponseResult(resp) ELSE ret.kind
           step == InventoryStep(polls, responses, rrv, resp)
       IN /\ io' = [call |-> "read",
                    hid |-> IF Reaches(device) THEN hid.kind ELSE "unreached",
                    ret |-> ret.kind]
          /\ IF ~(ret.kind = "Ok" /\ ReadMore(chunk, ret.len, elapsed + secs))
               THEN /\ returned' = [rr |-> rrv, response |-> IF rrv = "Ok" THEN resp ELSE <<>>]
                    /\ unread' = IF ret.kind = "Ok"
                                   THEN chunk[1] = Sentinel /\ ret.len = ChunkSize
                                   ELSE unread
                    /\ quiet' = IF op = "get_epc_list_raw"
                                  THEN quiet /\ rrv = "Ok" /\ (polls = 0 \/ resp = NoTagReport)
                                  ELSE quiet
               ELSE TRUE
          /\ IF ret.kind = "Ok" /\ ReadMore(chunk, ret.len, elapsed + secs)
               THEN /\ pc' = "recv"
                    /\ reads' = reads + 1
                    /\ response' = resp
                    /\ chunks' = Append(chunks, hid.bytes)
                    /\ elapsed' = elapsed + secs
                    /\ rr' = rr
                    /\ result' = result
                    /\ UNCHANGED <<command, bytes_written, written, polls, responses,
                                   frames, returned, unread, quiet, tags>>
             ELSE IF op = "get_epc_list_raw" /\ step.continue
               THEN /\ pc' = "send"
                    /\ command' = PollCommand
                    /\ frames' = Append(frames, PollCommand)
                    /\ polls' = polls + 1
                    /\ responses' = step.responses
                    /\ bytes_written' = 0
                    /\ written' = <<>>
                    /\ reads' = 0
                    /\ response' = <<>>
                    /\ chunks' = <<>>
                    /\ elapsed' = 0
                    /\ rr' = "none"
                    /\ result' = result
                    /\ tags' = tags
             ELSE /\ pc' = "done"
                  /\ reads' = reads + 1
                  /\ response' = IF ret.kind = "Ok" THEN resp ELSE response
                  /\ chunks' = IF ret.kind = "Ok" THEN Append(chunks, hid.bytes) ELSE chunks
                  /\ elapsed' = IF ret.kind = "Ok" THEN elapsed + secs ELSE elapsed
                  /\ rr' = rrv
                  /\ result' \in
                        IF op = "get_epc_list_raw" /\ step.result.kind = "Ok"
                          THEN {InventoryResults(api.call, step.responses).result}
                        ELSE IF op = "get_epc_list_raw" THEN {step.result}
                        ELSE IF rrv = "Ok" THEN {Decode(op, resp, oc) : oc \in BOOLEAN}
                        ELSE {Failure(rrv)}
                  /\ tags' = IF op = "get_epc_list_raw" /\ step.result.kind = "Ok"
                               THEN InventoryResults(api.call, step.responses).tags
                               ELSE tags
                  /\ polls' = polls
                  /\ responses' = IF op = "get_epc_list_raw" THEN step.responses
                                                             ELSE responses
                  /\ UNCHANGED <<command, bytes_written, written, frames>>
    /\ UNCHANGED <<op, device, memory_bank, address, r_len, data, more_args, connected,
                   tui_vars>>

\* the call has returned to its caller; the engine keeps nothing of it
return ==
    /\ pc = "done"
    /\ pc' = "idle"
    /\ op' = "none"
    /\ device' = "UsbIo"
    /\ memory_bank' = "Epc"
    /\ address' = 0
    /\ r_len' = 0
    /\ data' = <<>>
    /\ command' = <<>>
    /\ frames' = <<>>
    /\ NoMoreArgs
    /\ FreshCall
    /\ UNCHANGED connected
    /\ result' = NoResult

\* a caller invokes Interface::read
Read ==
    /\ pc = "idle"
    /\ \E dev \in Backends, bank \in MemoryBanks, addr \in Addresses, n \in Counts,
          oc \in BOOLEAN :
          /\ read(dev, bank, addr, n, oc)
          /\ api' = NoApi

\* a caller invokes Interface::write
Write ==
    /\ pc = "idle"
    /\ \E dev \in Backends, bank \in MemoryBanks, addr \in Addresses, n \in DataLens,
          oc \in BOOLEAN :
          /\ write(dev, bank, addr, DataOf(n), oc)
          /\ api' = NoApi

\* a caller invokes Interface::action
Action ==
    /\ pc = "idle"
    /\ \E dev \in Backends, a \in Actions, t \in TimeUnits, dbg \in BOOLEAN :
          /\ Interface_action(dev, a, t, dbg)
          /\ api' = NoApi

\* a caller invokes Interface::set_access_password
SetAccessPassword ==
    /\ pc = "idle"
    /\ \E dev \in Backends, pw \in Passwords8, dbg \in BOOLEAN :
          /\ set_access_password(dev, pw, dbg)
          /\ api' = NoApi

\* a caller invokes UhfRfidApi::set_access_password
ApiSetAccessPassword ==
    /\ pc = "idle"
    /\ \E p \in Passwords32 : UhfRfidApi_set_access_password(p)

\* a caller invokes Interface::lock_memory
LockMemory ==
    /\ pc = "idle"
    /\ \E dev \in Backends, ls \in LockSettings, dbg \in BOOLEAN :
          /\ lock_memory(dev, ls, dbg)
          /\ api' = NoApi

\* a caller invokes UhfRfidApi::lock_memory_raw
ApiLockMemoryRaw ==
    /\ pc = "idle"
    /\ \E pattern \in Patterns :
          /\ api' = [NoApi EXCEPT !.call = "lock_memory_raw", !.pattern = pattern]
          /\ UhfRfidApi_lock_memory_raw(pattern)

\* a caller invokes UhfRfidApi::lock_memory_bank
ApiLockMemoryBank ==
    /\ pc = "idle"
    /\ \E bank \in LockableMemoryBanks, act \in LockActions, oc \in BOOLEAN :
          UhfRfidApi_lock_memory_bank(bank, act, oc)

\* a caller invokes UhfRfidApi::lock_password
ApiLockPassword ==
    /\ pc = "idle"
    /\ \E bank \in LockableMemoryBanks, act \in PasswordLockActions, oc \in BOOLEAN :
          UhfRfidApi_lock_password(bank, act, oc)

\* a caller invokes LockPatternBuilder::memory_bank
BuildMemoryBankPattern ==
    /\ pc = "idle"
    /\ \E bank \in LockableMemoryBanks, act \in LockActions, apply_mask \in BOOLEAN,
          oc \in BOOLEAN :
          LET built == LockPatternBuilder_memory_bank(bank, act, apply_mask, oc) IN
          /\ api' = [NoApi EXCEPT !.call = "memory_bank", !.bank = bank, !.action = act,
                                  !.apply_mask = apply_mask, !.pattern = built.pattern]
          /\ NoOperation(IF built.panic THEN "Panic" ELSE "")

\* a caller invokes LockPatternBuilder::password
BuildPasswordPattern ==
    /\ pc = "idle"
    /\ \E bank \in LockableMemoryBanks, act \in PasswordLockActions,
          apply_mask \in BOOLEAN, oc \in BOOLEAN :
          LET built == LockPatternBuilder_password(bank, act, apply_mask, oc) IN
          /\ api' = [NoApi EXCEPT !.call = "password", !.bank = bank, !.action = act,
                                  !.apply_mask = apply_mask, !.pattern = built.pattern]
          /\ NoOperation(IF built.panic THEN "Panic" ELSE "")

\* a caller invokes Interface::get_epc_list_raw
GetEpcListRaw ==
    /\ pc = "idle"
    /\ \E dev \in Backends, dbg \in BOOLEAN :
          /\ get_epc_list_raw(dev, dbg)
          /\ api' = NoApi

\* a caller invokes UhfRfidApi::device_action
ApiDeviceAction ==
    /\ pc = "idle"
    /\ \E actions \in ActionLists, t \in TimeUnits : UhfRfidApi_device_action(actions, t)

\* a caller invokes UhfRfidApi::read
ApiRead ==
    /\ pc = "idle"
    /\ \E addr \in ApiAddresses, n \in ApiCounts, oc \in BOOLEAN :
          UhfRfidApi_read("User", addr, n, oc)

\* a caller invokes UhfRfidApi::write
ApiWrite ==
    /\ pc = "idle"
    /\ \E addr \in ApiAddresses, n \in ApiDataLens, oc \in BOOLEAN :
          UhfRfidApi_write("User", addr, DataOf(n), oc)

\* a caller invokes UhfRfidApi::inventory
ApiInventory ==
    /\ pc = "idle"
    /\ UhfRfidApi_inventory

\* a caller invokes UhfRfidApi::ascii_to_hex
AsciiToHex ==
    /\ pc = "idle"
    /\ \E hex_string \in HexStrings :
          /\ api' = [NoApi EXCEPT !.call = "ascii_to_hex", !.hex_string = hex_string]
          /\ Completed(ascii_to_hex(hex_string))

\* a caller invokes UsbDevice::disconnect
Disconnect ==
    /\ pc = "idle"
    /\ disconnect

\* The reports enumerated for an inventory: the short all-zero report for
\* MaxShortTags polls of a call, a report announcing a continuation up to poll
\* MaxLongPoll of a call
Offered(hid) ==
    op = "get_epc_list_raw" =>
        /\ hid.bytes = ShortNoTagReport =>
              Cardinality({i \in DOMAIN responses : responses[i] = short_hex(ShortNoTagReport)})
                  < MaxShortTags
        /\ (hid.kind = "data" /\ hid.bytes[1] = Sentinel) => polls <= MaxLongPoll

\* the next chunk of the command goes to the transport
SendCommand ==
    /\ pc = "send"
    /\ \E res \in WriteResults(device) : send_command(res)

\* the next chunk of the response is asked of the transport
ReadResponse ==
    /\ pc = "recv"
    /\ reads < MaxReads
    /\ \E hid \in ReadEvents(op), secs \in 0..MaxReadSecs :
          /\ Offered(hid)
          /\ read_response(hid, secs)

Next ==
    \/ Read
    \/ Write
    \/ Action
    \/ SetAccessPassword
    \/ ApiSetAccessPassword
    \/ LockMemory
    \/ ApiLockMemoryRaw
    \/ ApiLockMemoryBank
    \/ ApiLockPassword
    \/ BuildMemoryBankPattern
    \/ BuildPasswordPattern
    \/ GetEpcListRaw
    \/ ApiDeviceAction
    \/ ApiRead
    \/ ApiWrite
    \/ ApiInventory
    \/ AsciiToHex
    \/ Disconnect
    \/ SendCommand
    \/ ReadResponse
    \/ return

Spec == Init /\ [][Next]_vars

\* the next chunk of the response is asked of the transport, and the call takes time
ReadResponseInTime ==
    /\ pc = "recv"
    /\ reads < MaxLiveReads
    /\ \E hid \in ReadEvents(op), secs \in 1..MaxReadSecs :
          /\ Offered(hid)
          /\ read_response(hid, secs)

\* The engine with a clock that advances during every read_bulk call
LiveNext ==
    \/ Action
    \/ SendCommand
    \/ ReadResponseInTime
    \/ return

\* every read_bulk call that read_response makes comes back
LiveSpec == Init /\ [][LiveNext]_vars /\ WF_vars(ReadResponseInTime)

-----------------------------------------------------------------------------
(* The TUI: run_app, the methods of App it calls, and its handlers *)

\* what UhfRfidApi::inventory gives a handler when it fails, in the place of tags.len()
InventoryFailed == -1

\* how UhfRfidApi::write comes back on the parsed data
WriteOutcomes(d) ==
    IF Len(d) = 0 \/ Len(d) % 4 # 0 THEN {"Err"} ELSE {"Ok", "Err"}

\* how UhfRfidApi::lock_memory_bank comes back: the builder may panic, and the
\* pattern text has to convert before anything is sent
LockOutcomes(bank, act) ==
    UNION {LET built == LockPatternBuilder_memory_bank(bank, act, TRUE, oc)
           IN IF built.panic THEN {"Panic"}
              ELSE IF ~TryIntoArray6(FormatX04(built.pattern)) THEN {"Err"}
              ELSE {"Ok", "Err"} : oc \in BOOLEAN}

\* App::next_input_field
next_input_field(a) ==
    IF a.state \in {"Read", "Write"}
      THEN [a EXCEPT !.active_input_field = (a.active_input_field + 1) % 3]
    ELSE IF a.state = "Lock"
      THEN [a EXCEPT !.active_input_field = (a.active_input_field + 1) % 2]
    ELSE a

\* App::prev_input_field
prev_input_field(a) ==
    IF a.state \in {"Read", "Write"}
      THEN [a EXCEPT !.active_input_field =
                        IF a.active_input_field = 0 THEN 2 ELSE a.active_input_field - 1]
    ELSE IF a.state = "Lock"
      THEN [a EXCEPT !.active_input_field = IF a.active_input_field = 0 THEN 1 ELSE 0]
    ELSE a

\* App::input_char: the fields take the characters c.is_ascii_hexdigit() holds of
input_char(a, c) ==
    IF a.state = "Write" /\ a.active_input_field = 2 /\ to_digit(c) >= 0
      THEN [a EXCEPT !.write_data = Append(a.write_data, c)]
    ELSE IF a.state = "Raw" /\ to_digit(c) >= 0
      THEN [a EXCEPT !.raw_input = Append(a.raw_input, c)]
    ELSE a

\* App::input_backspace
input_backspace(a) ==
    IF a.state = "Write" /\ a.active_input_field = 2 /\ a.write_data # <<>>
      THEN [a EXCEPT !.write_data = SubSeq(a.write_data, 1, Len(a.write_data) - 1)]
    ELSE IF a.state = "Raw" /\ a.raw_input # <<>>
      THEN [a EXCEPT !.raw_input = SubSeq(a.raw_input, 1, Len(a.raw_input) - 1)]
    ELSE a

\* App::cycle_lock_bank
cycle_lock_bank(a) ==
    [a EXCEPT !.lock_bank =
        CASE a.lock_bank = "KillPassword" -> "AccessPassword"
          [] a.lock_bank = "AccessPassword" -> "Epc"
          [] a.lock_bank = "Epc" -> "Tid"
          [] a.lock_bank = "Tid" -> "User"
          [] a.lock_bank = "User" -> "KillPassword"]

\* App::prev_lock_bank
prev_lock_bank(a) ==
    [a EXCEPT !.lock_bank =
        CASE a.lock_bank = "KillPassword" -> "User"
          [] a.lock_bank = "AccessPassword" -> "KillPassword"
          [] a.lock_bank = "Epc" -> "AccessPassword"
          [] a.lock_bank = "Tid" -> "Epc"
          [] a.lock_bank = "User" -> "Tid"]

\* App::cycle_lock_action
cycle_lock_action(a) ==
    [a EXCEPT !.lock_action =
        CASE a.lock_action = "Writeable" -> "PermanentlyWriteable"
          [] a.lock_action = "PermanentlyWriteable" -> "SecureWriteable"
          [] a.lock_action = "SecureWriteable" -> "NotWriteable"
          [] a.lock_action = "NotWriteable" -> "Writeable"]

\* App::prev_lock_action
prev_lock_action(a) ==
    [a EXCEPT !.lock_action =
        CASE a.lock_action = "Writeable" -> "NotWriteable"
          [] a.lock_action = "PermanentlyWriteable" -> "Writeable"
          [] a.lock_action = "SecureWriteable" -> "PermanentlyWriteable"
          [] a.lock_action = "NotWriteable" -> "SecureWriteable"]

\* the key event leaves the App as a and attempts no write, lock or raw send
Plain(a) ==
    /\ app' = a
    /\ risky' = NoRisk
    /\ UNCHANGED <<run, warned>>

\* the handler's write, lock or raw send has been called and came back with out
Attempted(handler, operation, found, out) ==
    risky' = [handler |-> handler,
              op |-> operation,
              entry |-> app.pending_confirm,
              inventory |-> found,
              bank |-> IF operation = "lock" THEN app.lock_bank ELSE "none",
              action |-> IF operation = "lock" THEN app.lock_action ELSE "none",
              warned |-> warned # NoWarning,
              as_warned |-> operation = "lock"
                            /\ warned = [bank |-> app.lock_bank, action |-> app.lock_action],
              outcome |-> out]

\* update_inventory: it sets only the tag list and the text shown
update_inventory == Plain(app)

\* handle_read: it sets only the results and the text shown
handle_read == Plain(app)

\* handle_password: it sets only the text shown
handle_password == Plain(app)

\* handle_test: it sets only the text shown
handle_test == Plain(app)

\* handle_action: back to the main screen once device_action has returned Ok
handle_action ==
    \E performed \in BOOLEAN :
        Plain(IF app.device = "Some" /\ performed THEN [app EXCEPT !.state = "Main"] ELSE app)

\* handle_write
handle_write ==
    IF app.device = "None" THEN Plain(app)
    ELSE \E found \in InventoryFailed..MaxSeenTags :
        IF found = InventoryFailed \/ found = 0 THEN Plain(app)
        ELSE IF found > 1 /\ app.pending_confirm # "Write"
          THEN Plain([app EXCEPT !.pending_confirm = "Write"])
        ELSE LET parsed == ascii_to_hex(app.write_data) IN
             IF parsed.kind # "Ok"
               THEN Plain([app EXCEPT !.pending_confirm = "None"])
               ELSE \E out \in WriteOutcomes(parsed.data) :
                       /\ app' = [app EXCEPT !.pending_confirm = "None"]
                       /\ Attempted("handle_write", "write", found, out)
                       /\ warned' = NoWarning
                       /\ run' = run

\* handle_lock accepting any pending confirmation
LockUnconfirmed_AnyPending(a) == a.pending_confirm = "None"

\* handle_lock: app.pending_confirm != Some(PendingConfirm::Lock)
LockUnconfirmed(a) == a.pending_confirm # "Lock"

\* handle_lock
handle_lock ==
    IF app.device = "None" THEN Plain(app)
    ELSE \E found \in InventoryFailed..MaxSeenTags :
        IF found = InventoryFailed \/ found = 0 THEN Plain(app)
        ELSE IF LockUnconfirmed(app)
          THEN /\ app' = [app EXCEPT !.pending_confirm = "Lock"]
               /\ warned' = [bank |-> app.lock_bank, action |-> app.lock_action]
               /\ risky' = NoRisk
               /\ run' = run
        ELSE \E out \in LockOutcomes(app.lock_bank, app.lock_action) :
               /\ Attempted("handle_lock", "lock", found, out)
               /\ IF out = "Panic"
                    THEN /\ run' = "panic"
                         /\ UNCHANGED <<app, warned>>
                    ELSE /\ run' = run
                         /\ app' = [app EXCEPT !.pending_confirm = "None"]
                         /\ warned' = NoWarning

\* handle_raw: `device.write(&data)?` leaves at once on an error
handle_raw ==
    IF app.device = "None" THEN Plain(app)
    ELSE IF ascii_to_hex(app.raw_input).kind # "Ok" THEN Plain(app)
    ELSE IF app.pending_confirm # "Raw"
      THEN Plain([app EXCEPT !.pending_confirm = "Raw"])
    ELSE \E out \in {"Ok", "Err"} :
           /\ Attempted("handle_raw", "raw", 0, out)
           /\ app' = IF out = "Ok" THEN [app EXCEPT !.pending_confirm = "None"] ELSE app
           /\ warned' = NoWarning
           /\ run' = run

\* run_app before its loop: UsbDevice::new() and the first update_inventory
RunAppConnect ==
    /\ run = "connect"
    /\ \E device_found \in BOOLEAN :
          app' = [app EXCEPT !.device = IF device_found THEN "Some" ELSE "None"]
    /\ run' = "loop"
    /\ UNCHANGED <<risky, warned, engine_vars>>

\* Esc
KeyEsc ==
    /\ run = "loop"
    /\ Plain([app EXCEPT !.state = "Main"])
    /\ UNCHANGED engine_vars

\* 'q': out of a form, or out of run_app after device.disconnect()
KeyQ ==
    /\ run = "loop"
    /\ IF app.state = "Main"
         THEN /\ run' = "exit"
              /\ risky' = NoRisk
              /\ UNCHANGED <<app, warned>>
         ELSE Plain([app EXCEPT !.state = "Main"])
    /\ UNCHANGED engine_vars

\* 'i'
KeyI ==
    /\ run = "loop"
    /\ IF app.state = "Main" THEN update_inventory ELSE Plain(app)
    /\ UNCHANGED engine_vars

\* 'r'
KeyR ==
    /\ run = "loop"
    /\ IF app.state = "Main" THEN Plain([app EXCEPT !.state = "Read", !.active_input_field = 0])
       ELSE IF app.state = "Read" THEN handle_read
       ELSE Plain(app)
    /\ UNCHANGED engine_vars

\* 'w'
KeyW ==
    /\ run = "loop"
    /\ IF app.state = "Main" THEN Plain([app EXCEPT !.state = "Write", !.active_input_field = 0])
       ELSE IF app.state = "Write" THEN handle_write
       ELSE Plain(app)
    /\ UNCHANGED engine_vars

\* 'l'
KeyL ==
    /\ run = "loop"
    /\ IF app.state = "Main" THEN Plain([app EXCEPT !.state = "Lock", !.active_input_field = 0])
       ELSE IF app.state = "Lock" THEN handle_lock
       ELSE Plain(app)
    /\ UNCHANGED engine_vars

\* 'p'
KeyP ==
    /\ run = "loop"
    /\ IF app.state = "Main" THEN Plain([app EXCEPT !.state = "Password"])
       ELSE IF app.state = "Password" THEN handle_password
       ELSE Plain(app)
    /\ UNCHANGED engine_vars

\* 'a'
KeyA ==
    /\ run = "loop"
    /\ IF app.state = "Main" THEN Plain([app EXCEPT !.state = "Action", !.active_input_field = 0]) ELSE Plain(app)
    /\ UNCHANGED engine_vars

\* 'm'
KeyM ==
    /\ run = "loop"
    /\ IF app.state = "Main" THEN Plain([app EXCEPT !.state = "Raw", !.active_input_field = 0])
       ELSE IF app.state = "Raw" THEN handle_raw
       ELSE Plain(app)
    /\ UNCHANGED engine_vars

\* 't'
KeyT ==
    /\ run = "loop"
    /\ IF app.state = "Main" THEN Plain([app EXCEPT !.state = "Test"])
       ELSE IF app.state = "Test" THEN handle_test
       ELSE Plain(app)
    /\ UNCHANGED engine_vars

\* the space bar toggles an action flag
KeySpace ==
    /\ run = "loop"
    /\ Plain(app)
    /\ UNCHANGED engine_vars

\* Tab
KeyTab ==
    /\ run = "loop"
    /\ Plain(next_input_field(app))
    /\ UNCHANGED engine_vars

\* BackTab
KeyBackTab ==
    /\ run = "loop"
    /\ Plain(prev_input_field(app))
    /\ UNCHANGED engine_vars

\* Backspace
KeyBackspace ==
    /\ run = "loop"
    /\ Plain(input_backspace(app))
    /\ UNCHANGED engine_vars

\* any other character: the digit '1', or 'g', which no form takes
KeyChar ==
    /\ run = "loop"
    /\ \E c \in {49, 103} :
          LET a == input_char(app, c) IN
          /\ Len(a.write_data) <= MaxTyped
          /\ Len(a.raw_input) <= MaxTyped
          /\ Plain(a)
    /\ UNCHANGED engine_vars

\* Enter: in the main screen the item the menu stands on, whichever it is
KeyEnter ==
    /\ run = "loop"
    /\ IF app.state = "Main"
         THEN \E selected_menu_item \in {"Inventory", "ReadTag", "WriteTag", "LockTag",
                                         "SetPassword", "DeviceAction", "RawCommand",
                                         "RunTest", "Quit"} :
              CASE selected_menu_item = "Inventory" -> update_inventory
                [] selected_menu_item = "ReadTag" -> Plain([app EXCEPT !.state = "Read", !.active_input_field = 0])
                [] selected_menu_item = "WriteTag" -> Plain([app EXCEPT !.state = "Write", !.active_input_field = 0])
                [] selected_menu_item = "LockTag" -> Plain([app EXCEPT !.state = "Lock", !.active_input_field = 0])
                [] selected_menu_item = "SetPassword" -> Plain([app EXCEPT !.state = "Password"])
                [] selected_menu_item = "DeviceAction" -> Plain([app EXCEPT !.state = "Action", !.active_input_field = 0])
                [] selected_menu_item = "RawCommand" -> Plain([app EXCEPT !.state = "Raw"])
                [] selected_menu_item = "RunTest" -> Plain([app EXCEPT !.state = "Test"])
                [] selected_menu_item = "Quit" ->
                        /\ run' = "exit"
                        /\ risky' = NoRisk
                        /\ UNCHANGED <<app, warned>>
         ELSE CASE app.state = "Read" -> handle_read
                [] app.state = "Write" -> handle_write
                [] app.state = "Lock" -> handle_lock
                [] app.state = "Password" -> handle_password
                [] app.state = "Action" -> handle_action
                [] app.state = "Raw" -> handle_raw
                [] app.state = "Test" -> handle_test
    /\ UNCHANGED engine_vars

\* Up: the menu selection, or the focus in the action form
KeyUp ==
    /\ run = "loop"
    /\ IF app.state = "Action" /\ app.active_input_field > 0
         THEN Plain([app EXCEPT !.active_input_field = app.active_input_field - 1])
       ELSE Plain(app)
    /\ UNCHANGED engine_vars

\* Down: the menu selection, or the focus in the action form
KeyDown ==
    /\ run = "loop"
    /\ IF app.state = "Action" /\ app.active_input_field < 3
         THEN Plain([app EXCEPT !.active_input_field = app.active_input_field + 1])
       ELSE Plain(app)
    /\ UNCHANGED engine_vars

\* Right
KeyRight ==
    /\ run = "loop"
    /\ IF app.active_input_field = 0
         THEN Plain(IF app.state = "Lock" THEN cycle_lock_bank(app) ELSE app)
       ELSE IF app.state = "Lock" /\ app.active_input_field = 1
         THEN Plain(cycle_lock_action(app))
       ELSE Plain(app)
    /\ UNCHANGED engine_vars

\* Left
KeyLeft ==
    /\ run = "loop"
    /\ IF app.active_input_field = 0
         THEN Plain(IF app.state = "Lock" THEN prev_lock_bank(app) ELSE app)
       ELSE IF app.state = "Lock" /\ app.active_input_field = 1
         THEN Plain(prev_lock_action(app))
       ELSE Plain(app)
    /\ UNCHANGED engine_vars

\* run_app: the device is looked for, then one key event after the other
TuiNext ==
    \/ RunAppConnect
    \/ KeyEsc
    \/ KeyQ
    \/ KeyI
    \/ KeyR
    \/ KeyW
    \/ KeyL
    \/ KeyP
    \/ KeyA
    \/ KeyM
    \/ KeyT
    \/ KeySpace
    \/ KeyTab
    \/ KeyBackTab
    \/ KeyBackspace
    \/ KeyChar
    \/ KeyEnter
    \/ KeyUp
    \/ KeyDown
    \/ KeyRight
    \/ KeyLeft

TuiSpec == Init /\ [][TuiNext]_vars

-----------------------------------------------------------------------------
(* Vocabulary of the properties *)

RECURSIVE Concat(_)
Concat(ss) == IF ss = <<>> THEN <<>> ELSE Head(ss) \o Concat(Tail(ss))

\* ASCII of the sixteen hexadecimal digits '0'..'9', 'A'..'F'
HexDigits == <<48, 49, 50, 51, 52, 53, 54, 55, 56, 57, 65, 66, 67, 68, 69, 70>>

\* ASCII digit of a memory bank's wire code
BankDigit(b) ==
    CASE b = "Epc" -> 49
      [] b = "Tid" -> 50
      [] b = "User" -> 51
      [] b = "Reserved" -> 52

\* the k-th 64-byte chunk a command is to go out as
ExpectedChunk(cmd, k) ==
    [j \in 1..64 |->
        LET pos == 64 * (k - 1) + j IN
        IF j = 1 /\ Len(cmd) > 64
            THEN (IF k < (Len(cmd) + 63) \div 64 THEN 130 ELSE 2)
        ELSE IF pos <= Len(cmd) THEN cmd[pos]
        ELSE 0]

\* send_command has returned Ok in the running call
Sent == pc = "recv" \/ reads > 0

\* a full chunk that starts with the continuation sentinel
IsContinuation(c) == Len(c) = 64 /\ c[1] = 63

-----------------------------------------------------------------------------
(* Properties *)

\* C1: send_command on a command of L >= 1 bytes issues the write_bulk calls of
\* ceil(L/64) chunks in order, each of exactly 64 bytes: the next 64-byte slice of the
\* command zero-padded, with the first byte overwritten by 0x82 (all but the last
\* chunk) or 0x02 (last chunk) when L > 64, and left alone when L <= 64.  The chunks
\* issued so far are always a prefix of these, and all of them once send_command
\* has returned Ok.
C1_Framing ==
    LET N == (Len(command) + 63) \div 64 IN
    /\ Len(written) <= N
    /\ \A k \in 1..Len(written) : written[k] = ExpectedChunk(command, k)
    /\ Sent => Len(written) = N /\ N >= 1

\* a 130-byte command has gone out as 3 chunks (192 bytes) marked 0x82, 0x82, 0x02
C1_Witness ==
    /\ pc = "recv"
    /\ Len(command) = 130
    /\ Len(written) = 3
    /\ Len(Concat(written)) = 192
    /\ written[1][1] = 130 /\ written[2][1] = 130 /\ written[3][1] = 2

\* C2: read_response reads on only after a full 64-byte chunk that starts with 63 and
\* with the elapsed time within the timeout: every chunk but the last one read is
\* such a chunk, a further read is pending only after such a chunk, and the loop is
\* left after every other chunk (first byte not 63 even if 64 bytes long, or shorter
\* than 64 bytes whatever its first byte, or time up).
C2_ReadStops ==
    /\ \A k \in 1..(Len(chunks) - 1) : IsContinuation(chunks[k])
    /\ (pc = "recv" /\ chunks # <<>>) =>
           IsContinuation(chunks[Len(chunks)]) /\ elapsed <= 2
    /\ (pc = "done" /\ io.call = "read" /\ io.ret = "Ok") =>
           ~(IsContinuation(chunks[Len(chunks)]) /\ elapsed <= 2)

\* after a continuation chunk, a full 64-byte chunk that does not start with 63 ended the loop
C2_Witness ==
    /\ pc = "done"
    /\ Len(chunks) = 2
    /\ IsContinuation(chunks[1])
    /\ Len(chunks[2]) = 64 /\ chunks[2][1] # 63
    /\ elapsed <= 2

\* C3: when read_response returns Ok, the buffer it returns is non-empty and is the
\* in-order concatenation of the bytes read by every read_bulk call of that call,
\* sentinel bytes included.
C3_Reassembly ==
    /\ response = Concat(chunks)
    /\ rr = "Ok" => response # <<>>

\* a response of two chunks, 64 bytes starting with 63 and then 6 bytes, came back Ok
C3_Witness ==
    /\ rr = "Ok"
    /\ Len(chunks) = 2
    /\ Len(response) = 70
    /\ response[1] = 63

\* C4: read_response fails with Timeout whenever a read_bulk call gets no chunk from
\* the device within the timeout, with UsbDevice as the transport too, and returns
\* InvalidResponse only with an empty accumulated buffer.
C4_SilenceIsTimeout ==
    /\ (pc = "done" /\ io.call = "read" /\ io.hid = "none") => rr = "Timeout"
    /\ rr = "InvalidResponse" => response = <<>>

\* C5: for every bank and every address 0..15 read sends the 9-byte frame
\* [8, 2, 'A', 'R', '0'+code, ',', hex digit, ',', count]; for every address 16..255
\* the 10-byte frame with the two hex digits of the address, high nibble first.  Either
\* frame goes out as one chunk.
C5_ReadFrame ==
    op = "read" =>
        /\ r_len <= 15 => command # <<>>
        /\ command # <<>> =>
            /\ Len(command) <= 64
            /\ Sent => Len(written) = 1
            /\ IF address <= 15
                 THEN /\ Len(command) = 9
                      /\ SubSeq(command, 1, 8) =
                            <<8, 2, 65, 82, BankDigit(memory_bank), 44,
                              HexDigits[address + 1], 44>>
                 ELSE /\ Len(command) = 10
                      /\ SubSeq(command, 1, 9) =
                            <<9, 2, 65, 82, BankDigit(memory_bank), 44,
                              HexDigits[(address \div 16) + 1],
                              HexDigits[(address % 16) + 1], 44>>

\* the read frame of bank Reserved at address 255 has gone out: 'F','F' after "AR4,"
C5_Witness ==
    /\ op = "read"
    /\ pc = "recv"
    /\ memory_bank = "Reserved"
    /\ address = 255
    /\ Len(command) = 10
    /\ command[5] = 52 /\ command[7] = 70 /\ command[8] = 70

\* C6: the count byte of the read frame, and the word-count byte of the write frame,
\* is '0'+w for a count w in 0..9 and w+55 ('A'..'F') for w in 10..15, which is what
\* hex_value gives for w.
C6_CountByte ==
    /\ (op = "read" /\ command # <<>> /\ r_len <= 15) =>
          /\ command[Len(command)] = IF r_len <= 9 THEN 48 + r_len ELSE r_len + 55
          /\ command[Len(command)] = hex_value(r_len)
          /\ command[Len(command)] = HexDigits[r_len + 1]
    /\ (op = "write" /\ command # <<>> /\ Len(data) \div 4 <= 15) =>
          LET w == Len(data) \div 4
              at == IF address >= 16 THEN 10 ELSE 9
          IN /\ command[at] = IF w <= 9 THEN 48 + w ELSE w + 55
             /\ command[at] = hex_value(w)
             /\ command[at] = HexDigits[w + 1]

\* a write of 10 words carries 'A' as its word count, a read of 15 words would carry 'F'
C6_Witness ==
    /\ op = "write"
    /\ pc = "recv"
    /\ Len(data) = 40
    /\ address >= 16
    /\ command[10] = 65

\* C7: read returns Ok exactly when the response has at least 6 bytes and 'R' at offset
\* 4, InvalidResponse otherwise, and the payload returned is response[5..] cut to
\* count*4 bytes.
C7_ReadPayload ==
    (op = "read" /\ pc = "done" /\ rr = "Ok") =>
        /\ result.kind = "Ok" <=> (Len(response) >= 6 /\ response[5] = 82)
        /\ result.kind # "Ok" => result.kind = "InvalidResponse"
        /\ result.kind = "Ok" =>
              /\ Len(result.data) <= r_len * 4
              /\ result.data = SubSeq(response, 6, Min(Len(response), 5 + r_len * 4))

\* C8: for data of a non-zero multiple of 4 bytes that fits the frame, write hands
\* send_command the frame [len, 2, 'A', 'W', '0'+code, ',', address as 1 or 2 hex
\* digits, ',', word count byte, ',', data bytes], with len = frame length - 1.
C8_WriteFrame ==
    (op = "write" /\ Len(data) > 0 /\ Len(data) % 4 = 0 /\ Len(data) <= 244) =>
        LET w == Len(data) \div 4
            cnt == IF w <= 9 THEN 48 + w ELSE w + 55
            addr == IF address >= 16
                        THEN <<HexDigits[(address \div 16) + 1], HexDigits[(address % 16) + 1]>>
                        ELSE <<HexDigits[address + 1]>>
            flen == 9 + Len(addr) + Len(data)
        IN /\ command = <<flen - 1, 2, 65, 87, BankDigit(memory_bank), 44>>
                           \o addr \o <<44, cnt, 44>> \o data
           /\ command[1] = Len(command) - 1
           /\ Sent => Concat(written)[2] = 2 /\ Len(written) = (flen + 63) \div 64

\* the frame of a 124-byte write at address 255 has gone out: 135 bytes, declared 134
C8_Witness ==
    /\ op = "write"
    /\ pc = "recv"
    /\ address = 255
    /\ Len(data) = 124
    /\ Len(command) = 135
    /\ command[1] = 134
    /\ command[12] = data[1]

\* C9: write with data of length zero or not a multiple of 4 returns InvalidParameter
\* without a single transport call: no chunk written, no chunk read.
C9_WriteRejected ==
    (op = "write" /\ (Len(data) = 0 \/ Len(data) % 4 # 0)) =>
        /\ pc = "done"
        /\ result.kind = "InvalidParameter"
        /\ command = <<>>
        /\ written = <<>>
        /\ reads = 0
        /\ io = NoIo

\* a write of 3 bytes has been turned down
C9_Witness ==
    /\ op = "write"
    /\ Len(data) = 3
    /\ result.kind = "InvalidParameter"
    /\ written = <<>>

\* C10: read with a word count of 16 or more returns InvalidParameter before anything
\* is sent to the device: no chunk is ever written, and what the call returns (an
\* abort returns nothing) is InvalidParameter.
C10_CountRejected ==
    (op = "read" /\ r_len >= 16) =>
        /\ written = <<>>
        /\ (pc = "done" /\ result.kind # "Panic") => result.kind = "InvalidParameter"

\* C11: for every data length that is a non-zero multiple of 4, however large, write
\* either hands a frame to send_command or returns InvalidParameter; it never aborts
\* while building the frame.
C11_WriteNeverAborts ==
    (op = "write" /\ Len(data) > 0 /\ Len(data) % 4 = 0) =>
        /\ result.kind # "Panic"
        /\ command # <<>> \/ result.kind = "InvalidParameter"

\* C12: write returns Ok exactly when the reassembled response is non-empty and its
\* first byte is 8, and InvalidResponse for every other response received, a
\* multi-chunk response (which starts with the sentinel 63) included.
C12_WriteResult ==
    (op = "write" /\ pc = "done" /\ io.call = "read" /\ io.ret = "Ok") =>
        /\ result.kind = "Ok" <=> (response # <<>> /\ response[1] = 8)
        /\ result.kind # "Ok" => result.kind = "InvalidResponse"
        /\ Len(chunks) > 1 => result.kind = "InvalidResponse"

\* a write has been acknowledged by a response starting with 8
C12_Witness ==
    /\ op = "write"
    /\ pc = "done"
    /\ rr = "Ok"
    /\ response[1] = 8
    /\ result.kind = "Ok"

\* C13: for a bitmask in 1..15 action sends exactly [4, 2, 145, bitmask, time_units]
\* and returns Ok exactly when the response has at least 4 bytes and starts with
\* [3, 2, 145, 0], InvalidResponse otherwise; a bitmask of 0 or above 15 gives
\* InvalidParameter and no transport call.
C13_Action ==
    op = "action" =>
        IF action \in 1..15
          THEN /\ command = <<4, 2, 145, action, time_units>>
               /\ (pc = "done" /\ rr = "Ok") =>
                    /\ result.kind = "Ok" <=>
                          (Len(response) >= 4 /\ SubSeq(response, 1, 4) = <<3, 2, 145, 0>>)
                    /\ result.kind # "Ok" => result.kind = "InvalidResponse"
          ELSE /\ pc = "done"
               /\ result.kind = "InvalidParameter"
               /\ written = <<>>
               /\ reads = 0

\* C14: set_access_password returns Ok when the response begins with [4, 2, 65, 0, 80],
\* and InvalidResponse when any one of these five bytes differs or the response has
\* fewer than 5 bytes.
C14_PasswordResult ==
    (op = "set_access_password" /\ pc = "done" /\ rr = "Ok") =>
        result.kind = IF Len(response) >= 5 /\ SubSeq(response, 1, 5) = <<4, 2, 65, 0, 80>>
                        THEN "Ok"
                        ELSE "InvalidResponse"

\* the password has been acknowledged by a response that goes on after the five bytes
C14_Witness ==
    /\ op = "set_access_password"
    /\ pc = "done"
    /\ response = <<4, 2, 65, 0, 80, 7>>
    /\ result.kind = "Ok"

\* C15: set_access_password sends exactly the 12-byte frame [11, 2, 'A', 'P'] followed
\* by the 8 password bytes; called through UhfRfidApi::set_access_password(u32), bytes
\* 4..8 of the frame are the password big-endian and bytes 8..12 are zero.
C15_PasswordFrame ==
    op = "set_access_password" =>
        /\ Len(command) = 12
        /\ SubSeq(command, 1, 4) = <<11, 2, 65, 80>>
        /\ SubSeq(command, 5, 12) = password
        /\ written # <<>> => SubSeq(written[1], 1, 12) = command
        /\ Sent => Len(written) = 1
        /\ api.call = "set_access_password" =>
              /\ 256 * command[5] + command[6] = api.password[1]
              /\ 256 * command[7] + command[8] = api.password[2]
              /\ SubSeq(command, 9, 12) = <<0, 0, 0, 0>>

\* the password 0x12345678 has gone out through the API
C15_Witness ==
    /\ api.call = "set_access_password"
    /\ api.password = U32(4660, 22136)
    /\ Sent
    /\ SubSeq(written[1], 1, 12) = <<11, 2, 65, 80, 18, 52, 86, 120, 0, 0, 0, 0>>

\* C16: on a connected device lock_memory_bank, lock_memory_raw and lock_password (for
\* a password bank) render the pattern as 4 uppercase hexadecimal characters, place it
\* in the lock_setting bytes of the frame [10, 2, 'A', 'L', lock_setting], send that
\* frame, and return Ok when the reader answers with a valid lock response.
C16_LockThroughApi ==
    (/\ api.call \in {"lock_memory_bank", "lock_memory_raw", "lock_password"}
     /\ api.call = "lock_password" => api.bank \in {"AccessPassword", "KillPassword"}
     /\ pc = "done"
     /\ result.kind # "Panic") =>
        /\ written # <<>>
        /\ SubSeq(written[1], 1, 4) = <<10, 2, 65, 76>>
        /\ \E i \in 5..7 :
              SubSeq(written[1], i, i + 3) =
                  <<HexDigits[(api.pattern \div 4096) + 1],
                    HexDigits[((api.pattern \div 256) % 16) + 1],
                    HexDigits[((api.pattern \div 16) % 16) + 1],
                    HexDigits[(api.pattern % 16) + 1]>>
        /\ result.kind # "Protocol"

\* C17: lock_memory returns Ok exactly when the response has at least 8 bytes with
\* response[0] = 8, response[4] = 76, response[6] = 79 and response[7] = 75, and
\* InvalidResponse for every other response received.
C17_LockResult ==
    (op = "lock_memory" /\ pc = "done" /\ rr = "Ok") =>
        result.kind = IF /\ Len(response) >= 8
                         /\ response[1] = 8
                         /\ response[5] = 76
                         /\ response[7] = 79
                         /\ response[8] = 75
                        THEN "Ok"
                        ELSE "InvalidResponse"

\* a lock has been acknowledged by a response whose unchecked byte at offset 1 is 2
C17_Witness ==
    /\ op = "lock_memory"
    /\ pc = "done"
    /\ response = <<8, 2, 2, 3, 76, 5, 79, 75>>
    /\ result.kind = "Ok"

\* the bits set in a word n of at most 20 bits
BitsOf(n) == {b \in 0..19 : (n \div (2 ^ b)) % 2 = 1}

\* position of the data bit of a lockable bank; its permanent bit is the next one
DataBit(bank) ==
    CASE bank = "KillPassword" -> 0
      [] bank = "AccessPassword" -> 2
      [] bank = "Epc" -> 4
      [] bank = "Tid" -> 6
      [] bank = "User" -> 8

\* C19: memory_bank(bank, action, apply_mask) returns the 16-bit word whose set bits
\* are exactly: none for Writeable, the permanent bit for PermanentlyWriteable, the
\* data bit for SecureWriteable, both for NotWriteable, plus, with apply_mask, the
\* bits 10 above the data bit and the permanent bit.
C19_MemoryBankPattern ==
    (api.call = "memory_bank" /\ pc = "done") =>
        LET d == DataBit(api.bank)
            action_bits ==
                CASE api.action = "Writeable" -> {}
                  [] api.action = "PermanentlyWriteable" -> {d + 1}
                  [] api.action = "SecureWriteable" -> {d}
                  [] api.action = "NotWriteable" -> {d, d + 1}
            mask_bits == IF api.apply_mask THEN {d + 10, d + 11} ELSE {}
        IN /\ result.kind = "Ok"
           /\ api.pattern < 65536
           /\ BitsOf(api.pattern) = action_bits \cup mask_bits

\* C20 as stated: memory_bank(Epc, Writeable, false) is 0x0000, and
\* memory_bank(Epc, NotWriteable, true) sets bits 4, 5, 14 and 15 and equals 0x3030.
C20_AsStated ==
    (api.call = "memory_bank" /\ pc = "done" /\ api.bank = "Epc") =>
        /\ (api.action = "Writeable" /\ ~api.apply_mask) => api.pattern = 0
        /\ (api.action = "NotWriteable" /\ api.apply_mask) =>
              /\ BitsOf(api.pattern) = {4, 5, 14, 15}
              /\ api.pattern = 12336

\* C20: memory_bank(Epc, Writeable, false) is 0x0000, and
\* memory_bank(Epc, NotWriteable, true) sets bits 4, 5, 14 and 15 and equals 0xC030.
C20_EpcPatterns ==
    (api.call = "memory_bank" /\ pc = "done" /\ api.bank = "Epc") =>
        /\ (api.action = "Writeable" /\ ~api.apply_mask) => api.pattern = 0
        /\ (api.action = "NotWriteable" /\ api.apply_mask) =>
              /\ BitsOf(api.pattern) = {4, 5, 14, 15}
              /\ api.pattern = 49200

\* the builder has returned the masked pattern that locks the EPC bank
C20_Witness ==
    /\ api.call = "memory_bank"
    /\ pc = "done"
    /\ api.bank = "Epc"
    /\ api.action = "NotWriteable"
    /\ api.apply_mask
    /\ result.kind = "Ok"
    /\ api.pattern = 49200

\* an ASCII letter
IsAsciiLetter(b) == b \in 65..90 \/ b \in 97..122

\* C18 as stated: every command frame handed to send_command, by any operation,
\* begins with a declared length of the frame length minus 1, then 0x02, then an
\* ASCII opcode letter.
C18_AsStated ==
    command # <<>> =>
        /\ command[1] = Len(command) - 1
        /\ command[2] = 2
        /\ IsAsciiLetter(command[3])

\* C18: every command frame handed to send_command begins with a declared length of
\* the frame length minus 1, then 0x02, then an opcode byte that is an ASCII letter
\* for every operation but action, whose opcode byte is 145 (0x91).
C18_FrameHeader ==
    command # <<>> =>
        /\ command[1] = Len(command) - 1
        /\ command[2] = 2
        /\ IF op = "action" THEN command[3] = 145 ELSE IsAsciiLetter(command[3])

\* an inventory has sent its start frame and now a poll frame
C18_Witness ==
    /\ op = "get_epc_list_raw"
    /\ polls = 2
    /\ Sent
    /\ SubSeq(written[1], 1, 4) = <<3, 2, 85, 145>>
    /\ command[1] = Len(command) - 1

\* C21: LockPatternBuilder::password aborts for every bank other than AccessPassword
\* and KillPassword, while UhfRfidApi::lock_password with such a bank returns a
\* Protocol error before the builder is invoked and before any device I/O.
C21_PasswordBank ==
    (pc = "done" /\ api.bank \notin {"AccessPassword", "KillPassword"}) =>
        /\ api.call = "password" => result.kind = "Panic"
        /\ api.call = "lock_password" =>
              /\ result.kind = "Protocol"
              /\ command = <<>>
              /\ written = <<>>
              /\ reads = 0

\* lock_password has turned the EPC bank away
C21_Witness ==
    /\ pc = "done"
    /\ api.call = "lock_password"
    /\ api.bank = "Epc"
    /\ result.kind = "Protocol"
    /\ written = <<>>

\* C22: when the reader acknowledges the start command and answers every poll
\* with the all-zero report, and no transfer fails, an inventory that has
\* returned has handed exactly the start command and then 10 poll commands to
\* the transport, and returns Ok with an empty list
C22_QuietInventory ==
    (op = "get_epc_list_raw" /\ pc = "done" /\ quiet) =>
        /\ frames = [i \in 1..11 |-> IF i = 1 THEN <<3, 2, 85, 128>> ELSE <<3, 2, 85, 145>>]
        /\ responses = <<>>
        /\ result.kind = "Ok"

C22_Witness ==
    /\ op = "get_epc_list_raw" /\ pc = "done" /\ quiet
    /\ polls = 10 /\ Len(frames) = 11
    /\ responses = <<>> /\ result.kind = "Ok"
    /\ returned.response = NoTagReport

\* a poll of the running inventory fails in this step: its send fails, or its
\* read_response returns an error or fewer than 5 bytes
PollFails ==
    /\ op = "get_epc_list_raw"
    /\ polls >= 1
    /\ \/ pc = "send" /\ io'.call = "write" /\ io'.ret # "Ok"
       \/ /\ pc = "recv" /\ pc' # "recv"
          /\ \/ returned'.rr \in {"Timeout", "Communication", "InvalidResponse"}
             \/ returned'.rr = "Ok" /\ Len(returned'.response) < 5

LowerHexDigits == <<48, 49, 50, 51, 52, 53, 54, 55, 56, 57, 97, 98, 99, 100, 101, 102>>

\* the text of a byte sequence, two lower-case hexadecimal digits per byte
HexText(bytes) ==
    [i \in 1..(2 * Len(bytes)) |->
        IF i % 2 = 1 THEN LowerHexDigits[(bytes[(i + 1) \div 2] \div 16) + 1]
                     ELSE LowerHexDigits[(bytes[i \div 2] % 16) + 1]]

\* "04025591" followed by 39 zeros
AllZeroText == <<48, 52, 48, 50, 53, 53, 57, 49>> \o [i \in 1..39 |-> 48]

\* the read_response of a poll of the running inventory returns in this step
PollAnswered ==
    /\ op = "get_epc_list_raw"
    /\ polls >= 1
    /\ pc = "recv" /\ pc' # "recv"

\* C24: a poll response of at least 5 bytes is turned into its hexadecimal
\* text cut to 47 characters (all of it when shorter); the list of identifiers
\* is left as it was if and only if that text is "04025591" followed by
\* zeros, and is otherwise extended by the text
C24_Recording ==
    [][(PollAnswered /\ returned'.rr = "Ok" /\ Len(returned'.response) >= 5) =>
          LET text == HexText(returned'.response)
              kept == IF Len(text) >= 47 THEN SubSeq(text, 1, 47) ELSE text
          IN /\ kept = AllZeroText => responses' = responses
             /\ kept # AllZeroText => responses' = Append(responses, kept)]_vars

C24_Witness ==
    /\ op = "get_epc_list_raw"
    /\ polls >= 1
    /\ returned = [rr |-> "Ok", response |-> <<4, 2, 85, 145, 0>>]
    /\ responses # <<>>
    /\ responses[Len(responses)] = <<48, 52, 48, 50, 53, 53, 57, 49, 48, 48>>

\* the hexadecimal text of a response, cut to 47 characters
KeptText(bytes) ==
    IF 2 * Len(bytes) >= 47 THEN SubSeq(HexText(bytes), 1, 47) ELSE HexText(bytes)

\* C25: an inventory never holds more than 10 identifiers and never hands more
\* than 11 frames to the transport; within a call the list of identifiers only
\* grows at its end, by the identifier of the poll just answered, and an
\* identifier equal to one already listed is listed again
C25_PollOrder ==
    /\ [](op = "get_epc_list_raw" =>
            /\ Len(responses) <= 10
            /\ Len(responses) <= polls
            /\ Len(frames) <= 11)
    /\ [][(op = "get_epc_list_raw" /\ op' = "get_epc_list_raw") =>
            /\ \/ responses' = responses
               \/ /\ PollAnswered
                  /\ responses' = Append(responses, KeptText(returned'.response))
            /\ (/\ PollAnswered
                /\ returned'.rr = "Ok"
                /\ Len(returned'.response) >= 5
                /\ \E i \in DOMAIN responses : responses[i] = KeptText(returned'.response))
               => responses' = Append(responses, KeptText(returned'.response))]_vars

C25_Witness ==
    /\ op = "get_epc_list_raw" /\ pc = "done"
    /\ Len(frames) = 11
    /\ Len(responses) = 10
    /\ responses[1] = responses[2]
    /\ responses[2] # responses[3]
    /\ result.kind = "Ok"

\* the last transport call of the running read, write, action,
\* set_access_password or lock_memory failed with Timeout or Communication
TransferFailed ==
    /\ op \in {"read", "write", "action", "set_access_password", "lock_memory"}
    /\ io.call \in {"write", "read"}
    /\ io.ret \in {"Timeout", "Communication"}

\* C26: when a transport call of read, write, action, set_access_password or
\* lock_memory fails with Timeout or Communication, the operation has returned
\* that error, and it makes no transport call after the failing one
C26_Propagation ==
    /\ [](TransferFailed => (pc = "done" /\ result.kind = io.ret))
    /\ [][TransferFailed => (pc' = "idle" /\ io'.call = "none" /\ written' = <<>> /\ reads' = 0)]_vars

C26_Witness ==
    /\ op = "write" /\ pc = "done"
    /\ Len(command) > 2 * 64
    /\ Len(written) = 2
    /\ io = [call |-> "write", hid |-> "error", ret |-> "Timeout"]
    /\ reads = 0
    /\ result.kind = "Timeout"

\* C27 as stated: when an operation hands a second or later command frame to
\* the transport, read_response has returned for the previous command, and
\* the last report read for it did not announce a continuation that was left
\* unread.
C27_NoPipelining ==
    (pc = "send" /\ Len(frames) >= 2 /\ bytes_written = 0) =>
        /\ returned.rr = "Ok"
        /\ ~unread

\* the operations of UhfRfidApi that take the device
DeviceCalls ==
    {"device_action", "read", "write", "lock_memory_bank", "lock_memory_raw",
     "lock_password", "inventory", "set_access_password"}

\* C28 as stated: once the UsbDevice is disconnected, every UhfRfidApi
\* operation on it returns an error and no transfer of it reaches the HID
\* device, and the connected flag never goes back to true.
C28_Disconnected ==
    /\ []((~connected /\ pc = "done" /\ api.call \in DeviceCalls) =>
            /\ result.kind \in {"NotConnected", "Protocol", "Communication", "Timeout",
                                "InvalidResponse", "InvalidParameter", "DeviceNotFound"}
            /\ io.hid \in {"none", "unreached"})
    /\ [][connected' => connected]_vars

\* C30 as stated: every InventoryResult that UhfRfidApi::inventory returns
\* carries, as its read_count, the number of polls of that call whose
\* response was recorded as that result's epc.
C30_ReadCount ==
    (pc = "done" /\ api.call = "inventory" /\ result.kind = "Ok") =>
        \A i \in DOMAIN tags :
            tags[i].read_count =
                Cardinality({j \in DOMAIN responses : responses[j] = tags[i].epc})

\* ASCII of '0'..'9', 'A'..'F', 'a'..'f'
AsciiHexDigits == (48..57) \cup (65..70) \cup (97..102)

\* the number a hexadecimal digit stands for
DigitValue(c) == IF c <= 57 THEN c - 48 ELSE IF c <= 70 THEN c - 55 ELSE c - 87

\* C29 as stated: ascii_to_hex returns an error for a string of odd length
\* and for a string with a character that is not a hexadecimal digit, "+F"
\* included; for an even number of hexadecimal digits it returns the bytes that
\* the pairs of digits denote.
C29_AsciiToHex ==
    (pc = "done" /\ api.call = "ascii_to_hex") =>
        LET s == api.hex_string IN
        IF Len(s) % 2 = 1 \/ \E i \in DOMAIN s : s[i] \notin AsciiHexDigits
          THEN result.kind = "Protocol"
          ELSE result = [kind |-> "Ok",
                         data |-> [k \in 1..(Len(s) \div 2) |->
                                     16 * DigitValue(s[2 * k - 1]) + DigitValue(s[2 * k])]]

\* C31: an inventory whose start command could not be sent, or whose start
\* response could not be read, has returned that error and has handed no poll
\* command to the transport; an inventory that returns Ok has got past its
\* start command
C31_StartFails ==
    (op = "get_epc_list_raw" /\ pc = "done") =>
        /\ polls = 0 =>
              /\ frames = <<<<3, 2, 85, 128>>>>
              /\ io.call = "write" => (io.ret # "Ok" /\ result.kind = io.ret)
              /\ io.call = "read" =>
                    /\ returned.rr \in {"Timeout", "Communication", "InvalidResponse"}
                    /\ result.kind = returned.rr
              /\ responses = <<>>
        /\ result.kind = "Ok" => polls >= 1

C31_Witness ==
    /\ op = "get_epc_list_raw" /\ pc = "done"
    /\ polls = 0
    /\ io.call = "read" /\ io.ret = "Timeout"
    /\ result.kind = "Timeout"
    /\ frames = <<<<3, 2, 85, 128>>>>

\* C32: when every read_bulk call comes back and takes time, read_response
\* returns: while it is in its loop it has made at most 2 calls and no more
\* than the 2 s of its timeout have gone by, and it always leaves the loop
C32_Terminates ==
    /\ [](pc = "recv" => (reads <= 2 /\ elapsed <= 2))
    /\ (pc = "recv") ~> (pc # "recv")

C32_Witness ==
    /\ op = "action" /\ pc = "done"
    /\ reads = 3
    /\ elapsed > 2
    /\ \A i \in DOMAIN chunks : chunks[i][1] = 63 /\ Len(chunks[i]) = 64
    /\ Len(response) = 3 * 64
    /\ rr = "Ok"

\* what the finished call returns for its response when the debug flag is off
ResultsWithDebugOff ==
    CASE op = "action" -> {ActionDecode(response, FALSE, time_units, oc) : oc \in BOOLEAN}
      [] op = "set_access_password" -> {PasswordDecode(response)}
      [] op = "lock_memory" -> {LockDecode(response)}
      [] OTHER -> {result}

\* C33 as stated: the debug flag changes nothing but the log: a call made with
\* debug_mode on returns, for the same arguments and the same response of the
\* reader, what it returns with debug_mode off.
C33_DebugOnlyLogs ==
    (pc = "done" /\ rr = "Ok" /\ debug_mode) => result \in ResultsWithDebugOff

\* count + 55 for a count of 10 or more, count + 48 below, as a number
CountPlusOffset(n) == IF n >= 10 THEN n + 55 ELSE n + 48

\* C34 as stated: the count byte of a read or write frame is computed without
\* overflow: read never aborts, whatever its r_len in 0..255, and the count
\* byte of every frame built is count + 55 (or count + 48), a value of 0..255.
C34_CountByteFits ==
    /\ op = "read" =>
          /\ CountPlusOffset(r_len) \in 0..255
          /\ result.kind # "Panic"
          /\ command # <<>> => command[Len(command)] = CountPlusOffset(r_len)
    /\ (op = "write" /\ command # <<>>) =>
          /\ CountPlusOffset(Len(data) \div 4) \in 0..255
          /\ command[IF address >= 16 THEN 10 ELSE 9] = CountPlusOffset(Len(data) \div 4)

\* C35 as stated: with apply_mask, the two mask bits of every bank, 10 above
\* its data bit and its permanent bit, are below bit 16: the builders never
\* abort on the shift, and below bit 10 the word has no bit but the two
\* action bits of the bank.
C35_MaskPositions ==
    (/\ pc = "done"
     /\ api.apply_mask
     /\ \/ api.call \in {"memory_bank", "lock_memory_bank"}
        \/ /\ api.call \in {"password", "lock_password"}
           /\ api.bank \in {"AccessPassword", "KillPassword"}) =>
        LET d == DataBit(api.bank) IN
        /\ d + 10 < 16
        /\ d + 11 < 16
        /\ result.kind # "Panic"
        /\ BitsOf(api.pattern) \cap (0..9) \subseteq {d, d + 1}

\* the actions of the two builders, in the order of their declaration
LockActionList == <<"Writeable", "PermanentlyWriteable", "SecureWriteable", "NotWriteable">>

PasswordLockActionList ==
    <<"ReadWriteable", "PermanentlyReadWriteable", "SecureReadWriteable", "NotReadWriteable">>

\* C36: for AccessPassword and KillPassword, with or without the mask, the
\* word password returns for the i-th PasswordLockAction is the word
\* memory_bank returns for the i-th LockAction, and neither call aborts
C36_SameWord ==
    (pc = "done" /\ api.bank \in {"AccessPassword", "KillPassword"}) =>
        \A i \in 1..4, oc \in BOOLEAN :
            /\ (api.call = "password" /\ api.action = PasswordLockActionList[i]) =>
                  LET other == LockPatternBuilder_memory_bank(api.bank, LockActionList[i],
                                                              api.apply_mask, oc)
                  IN result.kind = "Ok" /\ ~other.panic /\ api.pattern = other.pattern
            /\ (api.call = "memory_bank" /\ api.action = LockActionList[i]) =>
                  LET other == LockPatternBuilder_password(api.bank, PasswordLockActionList[i],
                                                           api.apply_mask, oc)
                  IN result.kind = "Ok" /\ ~other.panic /\ api.pattern = other.pattern

C36_Witness ==
    /\ pc = "done"
    /\ api.call = "password"
    /\ api.bank = "AccessPassword"
    /\ api.action = "SecureReadWriteable"
    /\ api.apply_mask
    /\ api.pattern = 4 + 4096 + 8192
    /\ result.kind = "Ok"

\* C37: once write's frame has gone out, every data byte stands in the chunks
\* handed to the transport at its offset in the frame, also for frames of
\* several chunks
C37_NoByteLost ==
    (op = "write" /\ Sent /\ Len(command) >= Len(data)) =>
        \A i \in 1..Len(data) :
            LET offset == Len(command) - Len(data) + i
            IN /\ command[offset] = data[i]
               /\ offset <= Len(Concat(written))
               /\ Concat(written)[offset] = data[i]

\* C38: lock_memory_bank is called only by handle_lock, entered with
\* pending_confirm = Some(Lock), after a fresh inventory that found a tag, and
\* after a permanence warning of handle_lock since which no write, lock or raw
\* attempt has come back
C38_LockAfterWarning ==
    risky.op = "lock" =>
        /\ risky.handler = "handle_lock"
        /\ risky.entry = "Lock"
        /\ risky.inventory >= 1
        /\ risky.warned

\* a lock command has gone out and failed, two keys after the warning
C38_Witness ==
    /\ run = "loop"
    /\ risky.op = "lock"
    /\ risky.outcome = "Err"
    /\ risky.bank = "Epc"
    /\ risky.warned
    /\ risky.as_warned
    /\ app.pending_confirm = "None"

\* C39: the bank and the action handed to lock_memory_bank are the ones selected
\* when the permanence warning was last shown
C39_LockAsWarned ==
    risky.op = "lock" => risky.as_warned

\* C40: after a key event whose handler attempted its write, lock or raw send
\* and returned, pending_confirm is None
C40_ConfirmationSpent ==
    (risky.op # "none" /\ risky.outcome # "Panic") => app.pending_confirm = "None"

====
